---- MODULE Spec2Model ----
(***************************************************************************)
(* Model of the build recommendation and compatibility engine of          *)
(* src/shared/api.js: the pricing resolver, the compatibility checker and *)
(* the budget allocator.  JavaScript values are tagged records, strings   *)
(* are sequences of characters, and numbers that the code multiplies by a *)
(* decimal literal are IEEE-754 doubles with an exact 53-bit significand. *)
(***************************************************************************)
EXTENDS Integers, Sequences, FiniteSets, TLC

VARIABLES
  component,        \* argument of getLowestPrice / getBestVendor
  lowest,           \* value returned by getLowestPrice, Pending before the call
  best,             \* value returned by getBestVendor, Pending before the call
  build,            \* argument of checkCompatibility
  report,           \* value returned by checkCompatibility, Pending before the call
  catalog,          \* flat component list resolved by getComponents
  budget,           \* argument of getRecommendedBuild
  useCase,          \* argument of getRecommendedBuild (Undefined when omitted)
  recommendations,  \* value returned by getRecommendedBuild, Pending before the call
  total,            \* value returned by calculateBuildTotal, Pending before the call
  page,             \* the route shown: "advisor" or "builder"
  advisorBuild,     \* currentBuild of the Query page
  currentBuild,     \* currentBuild of the Builder page, Idle before it mounts
  savedBuilds,      \* savedBuilds of the Builder page
  localStorage,     \* the keys savedBuilds and savedBuild of localStorage
  link,             \* the build parameter of the last builder link made
  shared,           \* the build that link encodes
  outcome,          \* how the last handler ended: "done", its alert, "undecodable" or "throw"
  now,              \* Date.now()
  searchInput,      \* the component list given to fuzzySearch / filterComponents
  filters,          \* argument of filterComponents
  query,            \* argument of fuzzySearch
  filterResult,     \* value returned by filterComponents, Pending before the call
  searchResult,     \* value returned by fuzzySearch, Pending before the call
  compareList,      \* compareList of the Browse page
  compareStore,     \* the item compareList of localStorage
  live,             \* what the request to the live API yields
  fallback,         \* what the request for the static catalog document yields
  promises,         \* per I/O helper, how its promise settled, Pending before the call
  dbIndex,          \* db of the Builder page
  error,            \* error of the Builder page
  loading,          \* loading of the Builder page
  mounted,          \* the flag mounted of the Builder page's load effect
  settled,          \* whether the catalog load of the effect has settled
  inFlight,         \* the recommendation requests of the Query page not yet completed
  issued,           \* how many requests the Query page has issued
  showResults,      \* showResults of the Query page
  lastRequest       \* the latest request issued since the last reset, Null if none

engineVars == <<component, lowest, best, build, report,
                catalog, budget, useCase, recommendations, total>>

builderVars == <<page, advisorBuild, currentBuild, savedBuilds,
                 localStorage, link, shared, outcome, now>>

queryVars == <<searchInput, filters, query, filterResult, searchResult>>

browseVars == <<compareList, compareStore>>

ioVars == <<live, fallback, promises>>

loadVars == <<dbIndex, error, loading, mounted, settled>>

advisorVars == <<inFlight, issued, showResults, lastRequest>>

pageVars == <<browseVars, ioVars, loadVars, advisorVars>>

vars == <<engineVars, builderVars, queryVars, pageVars>>

(***************************************************************************)
(* Bounds                                                                  *)
(***************************************************************************)
MaxVendors == 3

MaxCatalog == 3

MaxSaves == 1

MaxItems == 3

\* the number of catalog items the Browse page lists
MaxUids == 6

\* the number of recommendation requests the advisor page issues
MaxRequests == 3

(***************************************************************************)
(* JavaScript values                                                       *)
(***************************************************************************)
Undefined == [t |-> "undefined"]

Null == [t |-> "null"]

NaN == [t |-> "NaN"]

Num(n) == [t |-> "number", v |-> n]

Str(s) == [t |-> "string", v |-> s]

Bool(b) == [t |-> "boolean", v |-> b]

\* a property key, used only to index an object
Key(k) == [t |-> "key", v |-> k]

\* a plain object with the own enumerable entries f
Obj(f) == [t |-> "object", v |-> f]

Arr(s) == [t |-> "array", v |-> s]

Pending == [t |-> "pending"]

\* the outcome of a call that raises an exception
Thrown == [t |-> "throw"]

Idle == [t |-> "idle"]

\* ToBoolean: undefined, null, NaN, 0, "" and false are falsy
Truthy(x) ==
  CASE x.t = "undefined" -> FALSE
    [] x.t = "null" -> FALSE
    [] x.t = "NaN" -> FALSE
    [] x.t = "number" -> x.v # 0
    [] x.t = "string" -> x.v # <<>>
    [] x.t = "boolean" -> x.v
    [] OTHER -> TRUE

\* the relational test  x > 0  on a number, undefined (NaN) or null (0)
GreaterThanZero(x) == x.t = "number" /\ x.v > 0

(***************************************************************************)
(* Strings: a string is the sequence of its characters                     *)
(***************************************************************************)
UpperCase ==
  <<"A", "B", "C", "D", "E", "F", "G", "H", "I", "J", "K", "L", "M",
    "N", "O", "P", "Q", "R", "S", "T", "U", "V", "W", "X", "Y", "Z">>

LowerCase ==
  <<"a", "b", "c", "d", "e", "f", "g", "h", "i", "j", "k", "l", "m",
    "n", "o", "p", "q", "r", "s", "t", "u", "v", "w", "x", "y", "z">>

Digits == <<"0", "1", "2", "3", "4", "5", "6", "7", "8", "9">>

IndexIn(ch, alphabet) ==
  IF \E i \in 1..Len(alphabet) : alphabet[i] = ch
  THEN CHOOSE i \in 1..Len(alphabet) : alphabet[i] = ch
  ELSE 0

\* String.prototype.toLowerCase
ToLowerCase(s) ==
  [i \in 1..Len(s) |->
     IF IndexIn(s[i], UpperCase) > 0
     THEN LowerCase[IndexIn(s[i], UpperCase)] ELSE s[i]]

\* the first position at which pat occurs in s, 0 when it does not occur
IndexOf(s, pat) ==
  LET hits == {i \in 1..(Len(s) - Len(pat) + 1) :
                 SubSeq(s, i, i + Len(pat) - 1) = pat}
  IN IF hits = {} THEN 0 ELSE CHOOSE i \in hits : \A j \in hits : i <= j

\* String.prototype.includes
Includes(s, pat) == pat = <<>> \/ IndexOf(s, pat) > 0

\* String.prototype.replace with a string pattern: the first occurrence only
Replace(s, pat, rep) ==
  LET i == IndexOf(s, pat)
  IN IF i = 0 THEN s
     ELSE SubSeq(s, 1, i - 1) \o rep \o SubSeq(s, i + Len(pat), Len(s))

\* the digits at the front of s, as a number; -1 when s starts with no digit
RECURSIVE DigitRun(_, _)
DigitRun(s, acc) ==
  IF s = <<>> \/ IndexIn(Head(s), Digits) = 0 THEN acc
  ELSE DigitRun(Tail(s),
                (IF acc < 0 THEN 0 ELSE acc * 10) + IndexIn(Head(s), Digits) - 1)

RECURSIVE TrimStart(_)
TrimStart(s) ==
  IF s # <<>> /\ Head(s) = " " THEN TrimStart(Tail(s)) ELSE s

\* parseInt(x) in radix 10: a number is read back from its decimal form,
\* a string is trimmed, an optional sign is read, then the leading digits
parseInt(x) ==
  CASE x.t = "number" -> x
    [] x.t = "string" ->
         LET s == TrimStart(x.v)
             negative == s # <<>> /\ Head(s) = "-"
             signed == s # <<>> /\ Head(s) \in {"-", "+"}
             n == DigitRun(IF signed THEN Tail(s) ELSE s, -1)
         IN IF n < 0 THEN NaN ELSE Num(IF negative THEN 0 - n ELSE n)
    [] OTHER -> NaN

(***************************************************************************)
(* IEEE-754 doubles.  A natural number is a little-endian sequence of      *)
(* limbs in base 2^14; a double is m * 2^e with m below 2^53.              *)
(***************************************************************************)
LimbBase == 2 ^ 14

SignificandBits == 53

RECURSIVE BigNorm(_)
BigNorm(a) ==
  IF a # <<>> /\ a[Len(a)] = 0 THEN BigNorm(SubSeq(a, 1, Len(a) - 1)) ELSE a

RECURSIVE BigFromInt(_)
BigFromInt(n) ==
  IF n = 0 THEN <<>> ELSE <<n % LimbBase>> \o BigFromInt(n \div LimbBase)

RECURSIVE BigToInt(_)
BigToInt(a) ==
  IF a = <<>> THEN 0 ELSE Head(a) + LimbBase * BigToInt(Tail(a))

RECURSIVE BigAddCarry(_, _, _)
BigAddCarry(a, b, carry) ==
  IF a = <<>> /\ b = <<>> THEN (IF carry = 0 THEN <<>> ELSE <<carry>>)
  ELSE LET x == IF a = <<>> THEN 0 ELSE Head(a)
           y == IF b = <<>> THEN 0 ELSE Head(b)
           sum == x + y + carry
       IN <<sum % LimbBase>> \o
          BigAddCarry(IF a = <<>> THEN a ELSE Tail(a),
                      IF b = <<>> THEN b ELSE Tail(b), sum \div LimbBase)

BigAdd(a, b) == BigAddCarry(a, b, 0)

RECURSIVE BigMulSmall(_, _, _)
BigMulSmall(a, k, carry) ==
  IF a = <<>> THEN (IF carry = 0 THEN <<>> ELSE <<carry>>)
  ELSE LET prod == Head(a) * k + carry
       IN <<prod % LimbBase>> \o BigMulSmall(Tail(a), k, prod \div LimbBase)

RECURSIVE BigMul(_, _)
BigMul(a, b) ==
  IF b = <<>> THEN <<>>
  ELSE BigAdd(BigMulSmall(a, Head(b), 0), <<0>> \o BigMul(a, Tail(b)))

\* quotient and remainder of a by a divisor below the limb base
RECURSIVE BigDivSmall(_, _)
BigDivSmall(a, d) ==
  IF a = <<>> THEN [q |-> <<>>, r |-> 0]
  ELSE LET high == BigDivSmall(Tail(a), d)
           cur == high.r * LimbBase + Head(a)
       IN [q |-> <<cur \div d>> \o high.q, r |-> cur % d]

RECURSIVE BitLength(_)
BitLength(n) == IF n = 0 THEN 0 ELSE 1 + BitLength(n \div 2)

LimbBits == BitLength(LimbBase) - 1

BigBitLength(a) ==
  LET n == BigNorm(a)
  IN IF n = <<>> THEN 0
     ELSE (Len(n) - 1) * LimbBits + BitLength(n[Len(n)])

BigShiftLeft(a, s) ==
  [i \in 1..(s \div LimbBits) |-> 0] \o BigMulSmall(a, 2 ^ (s % LimbBits), 0)

\* floor(a / 2^s), and whether a bit was shifted out
BigShiftRight(a, s) ==
  LET limbs == s \div LimbBits
      dropped == SubSeq(a, 1, IF limbs < Len(a) THEN limbs ELSE Len(a))
      rest == BigDivSmall(SubSeq(a, limbs + 1, Len(a)), 2 ^ (s % LimbBits))
  IN [q |-> BigNorm(rest.q),
      inexact |-> rest.r # 0 \/ \E i \in 1..Len(dropped) : dropped[i] # 0]

\* -1, 0 or 1 as a is below, equal to or above b
RECURSIVE BigCompareNorm(_, _)
BigCompareNorm(a, b) ==
  IF Len(a) # Len(b) THEN (IF Len(a) < Len(b) THEN 0 - 1 ELSE 1)
  ELSE IF a = <<>> THEN 0
  ELSE IF a[Len(a)] # b[Len(b)]
       THEN (IF a[Len(a)] < b[Len(b)] THEN 0 - 1 ELSE 1)
  ELSE BigCompareNorm(SubSeq(a, 1, Len(a) - 1), SubSeq(b, 1, Len(b) - 1))

BigCompare(a, b) == BigCompareNorm(BigNorm(a), BigNorm(b))

\* the double nearest to (a + f) * 2^e, where 0 <= f < 1 and sticky tells
\* whether f > 0: round to nearest, ties to even
RoundToDouble(a, e, sticky) ==
  LET n == BigBitLength(a)
  IN IF n <= SignificandBits THEN [m |-> BigNorm(a), e |-> e]
     ELSE LET s == n - SignificandBits
              above == BigShiftRight(a, s - 1)
              half == above.q # <<>> /\ above.q[1] % 2 = 1
              q == BigShiftRight(above.q, 1).q
              odd == q # <<>> /\ q[1] % 2 = 1
              up == half /\ (above.inexact \/ sticky \/ odd)
          IN [m |-> IF up THEN BigAdd(q, <<1>>) ELSE q, e |-> e + s]

\* the double denoted by an integer
DoubleOfInt(n) == [m |-> BigFromInt(n), e |-> 0]

\* the double denoted by the decimal literal num/den, den below the limb base
DoubleOfRatio(num, den) ==
  LET d == BigDivSmall(BigShiftLeft(BigFromInt(num), 64), den)
  IN RoundToDouble(d.q, 0 - 64, d.r # 0)

\* x * y
DoubleMul(x, y) == RoundToDouble(BigMul(x.m, y.m), x.e + y.e, FALSE)

\* -1, 0 or 1 as the integer n is below, equal to or above the double x
CompareIntDouble(n, x) ==
  IF x.e >= 0 THEN BigCompare(BigFromInt(n), BigShiftLeft(x.m, x.e))
  ELSE BigCompare(BigShiftLeft(BigFromInt(n), 0 - x.e), x.m)

\* Math.ceil(x)
MathCeil(x) ==
  IF x.e >= 0 THEN BigToInt(BigShiftLeft(x.m, x.e))
  ELSE LET r == BigShiftRight(x.m, 0 - x.e)
       IN BigToInt(r.q) + (IF r.inexact THEN 1 ELSE 0)

(***************************************************************************)
(* Pricing resolver                                                        *)
(***************************************************************************)
\* component?.vendors?.length is a non-zero number
HasVendors(c) ==
  /\ c.t = "component"
  /\ c.vendors.t = "array"
  /\ Len(c.vendors.v) > 0

\* v => v.inStock && v.price > 0
Eligible(v) == Truthy(v.inStock) /\ GreaterThanZero(v.price)

\* Array.prototype.filter with the eligibility predicate
RECURSIVE FilterEligible(_)
FilterEligible(vs) ==
  IF vs = <<>> THEN <<>>
  ELSE IF Eligible(Head(vs))
       THEN <<Head(vs)>> \o FilterEligible(Tail(vs))
       ELSE FilterEligible(Tail(vs))

\* .map(v => v.price)
MapPrice(vs) == [i \in 1..Len(vs) |-> vs[i].price.v]

\* Math.min(...prices) on a non-empty list of numbers
RECURSIVE MathMin(_)
MathMin(ps) ==
  IF Len(ps) = 1 THEN ps[1]
  ELSE LET m == MathMin(Tail(ps))
       IN IF ps[1] < m THEN ps[1] ELSE m

\* a value on which x?.toLowerCase() raises: toLowerCase is not a function
NotLowerable(x) == x.t \notin {"undefined", "null", "string"}

VendorsRaise_whenAbsent(c) ==
  /\ c.t = "component"
  /\ \/ c.vendors.t \in {"undefined", "null"}
     \/ c.vendors.t = "string" /\ c.vendors.v # <<>>
     \/ /\ c.vendors.t = "array"
        /\ \E i \in 1..Len(c.vendors.v) : c.vendors.v[i].t \in {"undefined", "null"}

\* the inputs on which getLowestPrice and getBestVendor raise: vendors with
\* a length but no filter method, or an offer that is null or undefined
VendorsRaise(c) ==
  /\ c.t = "component"
  /\ \/ c.vendors.t = "string" /\ c.vendors.v # <<>>
     \/ /\ c.vendors.t = "array"
        /\ \E i \in 1..Len(c.vendors.v) : c.vendors.v[i].t \in {"undefined", "null"}

getLowestPrice_keepsZeroPrice(c) ==
  IF ~HasVendors(c) THEN Null
  ELSE LET kept == SelectSeq(c.vendors.v,
                     LAMBDA v : Truthy(v.inStock) /\ v.price.t = "number")
           prices == MapPrice(kept)
       IN IF Len(prices) > 0 THEN Num(MathMin(prices)) ELSE Null

getLowestPrice(c) ==
  IF ~HasVendors(c) THEN Null
  ELSE LET prices == MapPrice(FilterEligible(c.vendors.v))
       IN IF Len(prices) > 0 THEN Num(MathMin(prices)) ELSE Null

RECURSIVE ReduceBest_lastWins(_, _)
ReduceBest_lastWins(acc, vs) ==
  IF vs = <<>> THEN acc
  ELSE ReduceBest_lastWins(
         IF Head(vs).price.v <= acc.price.v THEN Head(vs) ELSE acc, Tail(vs))

\* inStock.reduce((best, v) => v.price < best.price ? v : best)
RECURSIVE ReduceBest(_, _)
ReduceBest(acc, vs) ==
  IF vs = <<>> THEN acc
  ELSE ReduceBest(IF Head(vs).price.v < acc.price.v THEN Head(vs) ELSE acc,
                  Tail(vs))

getBestVendor_firstEligible(c) ==
  IF ~HasVendors(c) THEN Null
  ELSE LET inStock == FilterEligible(c.vendors.v)
       IN IF Len(inStock) = 0 THEN Null ELSE Head(inStock)

getBestVendor(c) ==
  IF ~HasVendors(c) THEN Null
  ELSE LET inStock == FilterEligible(c.vendors.v)
       IN IF Len(inStock) = 0 THEN Null
          ELSE ReduceBest(Head(inStock), Tail(inStock))

(***************************************************************************)
(* Inputs of the pricing resolver                                          *)
(***************************************************************************)
\* a vendor offer; name stands for the retailer and is its position
Offers(i) ==
  [t : {"vendor"}, name : {i},
   price : {Undefined, Num(0), Num(4000), Num(5000)},
   inStock : {Bool(TRUE), Bool(FALSE), Undefined}]

RECURSIVE VendorLists(_)
VendorLists(n) ==
  IF n = 0 THEN {<<>>}
  ELSE LET shorter == VendorLists(n - 1)
       IN shorter \cup
          {Append(vs, o) : vs \in {s \in shorter : Len(s) = n - 1},
                           o \in Offers(n)}

\* a catalog record; an attribute the record does not carry is Undefined
Component(id, category, vendors) ==
  [t |-> "component", id |-> id, category |-> category, vendors |-> vendors,
   name |-> Undefined, brand |-> Undefined,
   socket |-> Undefined, ramType |-> Undefined, type |-> Undefined,
   wattage |-> Undefined]

\* the variables of the pages that are not on screen
EngineIdle ==
  /\ component = Idle
  /\ lowest = Idle
  /\ best = Idle
  /\ build = Idle
  /\ report = Idle
  /\ catalog = Idle
  /\ budget = Idle
  /\ useCase = Idle
  /\ recommendations = Idle
  /\ total = Idle

BuilderIdle ==
  /\ page = Idle
  /\ advisorBuild = Idle
  /\ currentBuild = Idle
  /\ savedBuilds = Idle
  /\ localStorage = Idle
  /\ link = Idle
  /\ shared = Idle
  /\ outcome = Idle
  /\ now = Idle

QueryIdle ==
  /\ searchInput = Idle
  /\ filters = Idle
  /\ query = Idle
  /\ filterResult = Idle
  /\ searchResult = Idle

BrowseIdle ==
  /\ compareList = Idle
  /\ compareStore = Idle

IoIdle ==
  /\ live = Idle
  /\ fallback = Idle
  /\ promises = Idle

LoadIdle ==
  /\ dbIndex = Idle
  /\ error = Idle
  /\ loading = Idle
  /\ mounted = Idle
  /\ settled = Idle

AdvisorIdle ==
  /\ inFlight = Idle
  /\ issued = Idle
  /\ showResults = Idle
  /\ lastRequest = Idle

PagesIdle ==
  /\ BrowseIdle
  /\ IoIdle
  /\ LoadIdle
  /\ AdvisorIdle

PricedComponents ==
  {Null, Component(1, "cpu", Undefined)}
    \cup {Component(1, "cpu", Arr(vs)) : vs \in VendorLists(MaxVendors)}

(***************************************************************************)
(* Specification of the pricing resolver: a component is chosen, then     *)
(* each function is applied to it once.                                    *)
(***************************************************************************)
InitPrice ==
  /\ total = Idle
  /\ BuilderIdle
  /\ QueryIdle
  /\ PagesIdle
  /\ component \in PricedComponents
  /\ lowest = Pending
  /\ best = Pending
  /\ build = Idle
  /\ report = Idle
  /\ catalog = <<>>
  /\ budget = 0
  /\ useCase = Idle
  /\ recommendations = Idle

CallGetLowestPrice ==
  /\ lowest = Pending
  /\ lowest' = IF VendorsRaise(component) THEN Thrown ELSE getLowestPrice(component)
  /\ UNCHANGED <<component, best, build, report,
                 catalog, budget, useCase, recommendations>>
  /\ UNCHANGED <<builderVars, queryVars, pageVars, total>>

CallGetBestVendor ==
  /\ best = Pending
  /\ best' = IF VendorsRaise(component) THEN Thrown ELSE getBestVendor(component)
  /\ UNCHANGED <<component, lowest, build, report,
                 catalog, budget, useCase, recommendations>>
  /\ UNCHANGED <<builderVars, queryVars, pageVars, total>>

NextPrice == CallGetLowestPrice \/ CallGetBestVendor

SpecPrice == InitPrice /\ [][NextPrice]_vars

(***************************************************************************)
(* Properties of the pricing resolver                                      *)
(***************************************************************************)
\* the offers of c that are in stock and priced above zero
EligibleOffers(c) ==
  IF c.t = "component" /\ c.vendors.t = "array"
  THEN {c.vendors.v[i] : i \in {j \in 1..Len(c.vendors.v) :
           /\ c.vendors.v[j].inStock = Bool(TRUE)
           /\ c.vendors.v[j].price.t = "number"
           /\ c.vendors.v[j].price.v > 0}}
  ELSE {}

\* C1: getLowestPrice returns the minimum price among the in-stock offers
\* priced above zero, and null when there is none (no component, no vendor
\* list, an empty list, or only out-of-stock or non-positive offers).
C1_LowestPriceIsMinEligible ==
  lowest # Pending =>
    LET el == EligibleOffers(component)
    IN IF el = {} THEN lowest = Null
       ELSE /\ lowest.t = "number"
            /\ \E o \in el : o.price.v = lowest.v
            /\ \A o \in el : lowest.v <= o.price.v

\* a component with an in-stock zero-priced offer besides an eligible one
C1_Witness ==
  /\ lowest = Num(5000)
  /\ \E i \in 1..Len(component.vendors.v) :
       /\ component.vendors.v[i].inStock = Bool(TRUE)
       /\ component.vendors.v[i].price = Num(0)
  /\ \E i \in 1..Len(component.vendors.v) :
       /\ component.vendors.v[i].inStock = Bool(FALSE)
       /\ component.vendors.v[i].price = Num(4000)

\* C2: getBestVendor is null exactly when getLowestPrice is null; otherwise
\* it is an in-stock offer of the component priced above zero whose price is
\* the lowest price.
C2_BestVendorAchievesLowest ==
  (lowest # Pending /\ best # Pending) =>
    /\ (best = Null) <=> (lowest = Null)
    /\ best # Null =>
         /\ best \in EligibleOffers(component)
         /\ best.price = lowest

C2_Witness ==
  /\ lowest = Num(4000)
  /\ best # Pending
  /\ best # Null
  /\ best.name > 1
  /\ Cardinality(EligibleOffers(component)) >= 2

\* C3: among several eligible offers at the minimum price, getBestVendor
\* returns the one that comes first in the vendor list.
C3_TieBreakFirst ==
  (best # Pending /\ best # Null) =>
    \A i \in 1..Len(component.vendors.v) :
      (/\ component.vendors.v[i] \in EligibleOffers(component)
       /\ component.vendors.v[i].price = best.price) => best.name <= i

C3_Witness ==
  /\ best # Pending
  /\ best # Null
  /\ \E i \in 1..Len(component.vendors.v) :
       /\ i > best.name
       /\ component.vendors.v[i] \in EligibleOffers(component)
       /\ component.vendors.v[i].price = best.price

(***************************************************************************)
(* Compatibility checker                                                   *)
(***************************************************************************)
Categories ==
  {"cpu", "motherboard", "ram", "gpu", "storage", "psu", "pcCase", "monitor"}

\* x?.toLowerCase() || ''
LowerOrEmpty(x) == IF x.t = "string" THEN ToLowerCase(x.v) ELSE <<>>

Finding(type, severity, message) ==
  [type |-> type, severity |-> severity, message |-> message]

SocketCheck_caseSensitive(b) ==
  IF Truthy(b.cpu) /\ Truthy(b.motherboard)
  THEN LET cpuSocket == IF b.cpu.socket.t = "string"
                        THEN b.cpu.socket.v ELSE <<>>
           mbSocket == IF b.motherboard.socket.t = "string"
                       THEN b.motherboard.socket.v ELSE <<>>
       IN IF cpuSocket # <<>> /\ mbSocket # <<>> /\ cpuSocket # mbSocket
          THEN <<Finding("socket", "error",
                         <<b.cpu.socket, b.motherboard.socket>>)>>
          ELSE <<>>
  ELSE <<>>

\* Check CPU + Motherboard socket compatibility
SocketCheck(b) ==
  IF Truthy(b.cpu) /\ Truthy(b.motherboard)
  THEN LET cpuSocket == LowerOrEmpty(b.cpu.socket)
           mbSocket == LowerOrEmpty(b.motherboard.socket)
       IN IF cpuSocket # <<>> /\ mbSocket # <<>> /\ cpuSocket # mbSocket
          THEN <<Finding("socket", "error",
                         <<b.cpu.socket, b.motherboard.socket>>)>>
          ELSE <<>>
  ELSE <<>>

RamCheck_exactMatch(b) ==
  IF Truthy(b.ram) /\ Truthy(b.motherboard)
  THEN LET ramType == LowerOrEmpty(b.ram.type)
           mbRam == LowerOrEmpty(b.motherboard.ramType)
       IN IF ramType # <<>> /\ mbRam # <<>> /\ mbRam # ramType
          THEN <<Finding("ram", "warning", <<b.ram.type>>)>>
          ELSE <<>>
  ELSE <<>>

\* Check RAM + Motherboard compatibility
RamCheck(b) ==
  IF Truthy(b.ram) /\ Truthy(b.motherboard)
  THEN LET ramType == LowerOrEmpty(b.ram.type)
           mbRam == LowerOrEmpty(b.motherboard.ramType)
           ddr == <<"d", "d", "r">>
       IN IF /\ ramType # <<>>
             /\ mbRam # <<>>
             /\ ~Includes(mbRam, Replace(ramType, ddr, ddr))
          THEN <<Finding("ram", "warning", <<b.ram.type>>)>>
          ELSE <<>>
  ELSE <<>>

\* the estimate: 125 for a cpu, 250 for a gpu, 100 for the other components
EstimatedPower(b) ==
  (IF Truthy(b.cpu) THEN 125 ELSE 0) + (IF Truthy(b.gpu) THEN 250 ELSE 0) + 100

PowerCheck_ignoresGpu(b) ==
  IF Truthy(b.psu)
  THEN LET parsed == parseInt(b.psu.wattage)
           psuWattage == IF Truthy(parsed) THEN parsed.v ELSE 0
           estimatedPower == (IF Truthy(b.cpu) THEN 125 ELSE 0) + 100
           limit == DoubleMul(DoubleOfInt(estimatedPower), DoubleOfRatio(12, 10))
           recommended ==
             MathCeil(DoubleMul(DoubleOfInt(estimatedPower), DoubleOfRatio(13, 10)))
       IN IF psuWattage > 0 /\ CompareIntDouble(psuWattage, limit) < 0
          THEN <<Finding("power", "warning", <<psuWattage, recommended>>)>>
          ELSE <<>>
  ELSE <<>>

\* Check PSU wattage
PowerCheck(b) ==
  IF Truthy(b.psu)
  THEN LET parsed == parseInt(b.psu.wattage)
           psuWattage == IF Truthy(parsed) THEN parsed.v ELSE 0
           estimatedPower == EstimatedPower(b)
           limit == DoubleMul(DoubleOfInt(estimatedPower), DoubleOfRatio(12, 10))
           recommended ==
             MathCeil(DoubleMul(DoubleOfInt(estimatedPower), DoubleOfRatio(13, 10)))
       IN IF psuWattage > 0 /\ CompareIntDouble(psuWattage, limit) < 0
          THEN <<Finding("power", "warning", <<psuWattage, recommended>>)>>
          ELSE <<>>
  ELSE <<>>

\* the builds on which checkCompatibility raises: a socket, ram type or
\* motherboard ramType that is read and has no toLowerCase method
checkCompatibilityRaises(b) ==
  \/ /\ Truthy(b.cpu)
     /\ Truthy(b.motherboard)
     /\ NotLowerable(b.cpu.socket) \/ NotLowerable(b.motherboard.socket)
  \/ /\ Truthy(b.ram)
     /\ Truthy(b.motherboard)
     /\ NotLowerable(b.ram.type) \/ NotLowerable(b.motherboard.ramType)

checkCompatibility_warningsBlock(b) ==
  LET warnings == SocketCheck(b) \o RamCheck(b) \o PowerCheck(b)
  IN [isCompatible |-> warnings = <<>>,
      hasWarnings |-> Len(warnings) > 0,
      warnings |-> warnings]

checkCompatibility(b) ==
  LET warnings == SocketCheck(b) \o RamCheck(b) \o PowerCheck(b)
  IN [isCompatible |-> ~\E i \in 1..Len(warnings) : warnings[i].severity = "error",
      hasWarnings |-> Len(warnings) > 0,
      warnings |-> warnings]

(***************************************************************************)
(* Inputs of the compatibility checker                                     *)
(***************************************************************************)
NoOffers == Arr(<<>>)

CpuChoices ==
  {Null} \cup
  {[Component(1, "cpu", NoOffers) EXCEPT !.socket = s] :
     s \in {Undefined, Str(<<>>), Str(<<"A", "M", "5">>), Str(<<"a", "m", "5">>),
            Str(<<"L", "G", "A", "1", "7", "0", "0">>)}}

MotherboardChoices ==
  {Null} \cup
  {[Component(1, "motherboard", NoOffers) EXCEPT !.socket = s, !.ramType = r] :
     s \in {Undefined, Str(<<>>), Str(<<"A", "M", "5">>),
            Str(<<"L", "G", "A", "1", "7", "0", "0">>)},
     r \in {Undefined, Str(<<>>), Str(<<"D", "D", "R", "4">>),
            Str(<<"D", "D", "R", "4", "/", "D", "D", "R", "5">>)}}

RamChoices ==
  {Null} \cup
  {[Component(1, "ram", NoOffers) EXCEPT !.type = ty] :
     ty \in {Undefined, Str(<<>>), Str(<<"D", "D", "R", "4">>),
             Str(<<"D", "D", "R", "5">>), Str(<<"d", "d", "r", "5">>)}}

GpuChoices == {Null, Component(1, "gpu", NoOffers)}

PsuChoices ==
  {Null} \cup
  {[Component(1, "psu", NoOffers) EXCEPT !.wattage = w] :
     w \in {Undefined, Str(<<"3", "0", "0">>), Str(<<"6", "5", "0", "W">>),
            Str(<<"a", "b", "c">>), Str(<<"-", "5">>)}
           \cup {Num(n) : n \in {0, 119, 120, 269, 270, 419, 420, 569, 570}}}

Builds ==
  [cpu : CpuChoices, motherboard : MotherboardChoices, ram : RamChoices,
   gpu : GpuChoices, storage : {Null}, psu : PsuChoices, pcCase : {Null},
   monitor : {Null}]

(***************************************************************************)
(* Specification of the compatibility checker                              *)
(***************************************************************************)
InitCompat ==
  /\ total = Idle
  /\ BuilderIdle
  /\ QueryIdle
  /\ PagesIdle
  /\ build \in Builds
  /\ report = Pending
  /\ component = Idle
  /\ lowest = Idle
  /\ best = Idle
  /\ catalog = <<>>
  /\ budget = 0
  /\ useCase = Idle
  /\ recommendations = Idle

CallCheckCompatibility ==
  /\ report = Pending
  /\ report' = IF checkCompatibilityRaises(build) THEN Thrown
                ELSE checkCompatibility(build)
  /\ UNCHANGED <<component, lowest, best, build,
                 catalog, budget, useCase, recommendations>>
  /\ UNCHANGED <<builderVars, queryVars, pageVars, total>>

NextCompat == CallCheckCompatibility

SpecCompat == InitCompat /\ [][NextCompat]_vars

(***************************************************************************)
(* Properties of the compatibility checker                                 *)
(***************************************************************************)
\* the findings of the report that have the given type
FindingsOfType(r, type) ==
  {i \in 1..Len(r.warnings) : r.warnings[i].type = type}

\* a and b are the same character up to letter case
SameLetter(a, b) ==
  a = b \/ \E k \in 1..Len(UpperCase) : {a, b} = {UpperCase[k], LowerCase[k]}

\* the strings s and u are equal up to letter case
EqualIgnoringCase(s, u) ==
  Len(s) = Len(u) /\ \A i \in 1..Len(s) : SameLetter(s[i], u[i])

\* the string s contains u as a substring, up to letter case
ContainsIgnoringCase(s, u) ==
  \E k \in 0..(Len(s) - Len(u)) : \A i \in 1..Len(u) : SameLetter(s[k + i], u[i])

NonEmptyString(x) == x.t = "string" /\ x.v # <<>>

FilledSlots(b) == {c \in DOMAIN b : b[c] # Null}

SocketMismatch(b) ==
  /\ b.cpu # Null
  /\ b.motherboard # Null
  /\ NonEmptyString(b.cpu.socket)
  /\ NonEmptyString(b.motherboard.socket)
  /\ ~EqualIgnoringCase(b.cpu.socket.v, b.motherboard.socket.v)

\* C4: a socket finding of severity error is emitted exactly when cpu and
\* motherboard are both filled with non-empty sockets that differ up to
\* letter case; there is at most one; a build of only a mismatching cpu and
\* motherboard has exactly one finding.
C4_SocketFinding ==
  report # Pending =>
    LET fs == FindingsOfType(report, "socket")
    IN /\ Cardinality(fs) = (IF SocketMismatch(build) THEN 1 ELSE 0)
       /\ \A i \in fs : report.warnings[i].severity = "error"
       /\ (SocketMismatch(build) /\ FilledSlots(build) = {"cpu", "motherboard"})
            => Len(report.warnings) = 1

\* sockets that differ only by letter case are no mismatch
C4_SameSocketOtherCase ==
  /\ report # Pending
  /\ build.cpu # Null
  /\ build.motherboard # Null
  /\ build.cpu.socket = Str(<<"a", "m", "5">>)
  /\ build.motherboard.socket = Str(<<"A", "M", "5">>)
  /\ FindingsOfType(report, "socket") = {}

\* a build of only an AM5 cpu and an LGA1700 motherboard
C4_Witness ==
  /\ report # Pending
  /\ FilledSlots(build) = {"cpu", "motherboard"}
  /\ Len(report.warnings) = 1
  /\ report.warnings[1].type = "socket"
  /\ ~report.isCompatible

\* C5: a power warning is emitted exactly when the psu is filled, its
\* wattage parses to an integer w > 0 and w < 1.2 * E, with
\* E = 100 + 125 (cpu filled) + 250 (gpu filled); the finding recommends
\* ceil(1.3 * E).
C5_PowerFinding ==
  report # Pending =>
    LET fs == FindingsOfType(report, "power")
        E == 100 + (IF build.cpu # Null THEN 125 ELSE 0)
                 + (IF build.gpu # Null THEN 250 ELSE 0)
        w == IF build.psu = Null THEN NaN ELSE parseInt(build.psu.wattage)
        low == w.t = "number" /\ w.v > 0 /\ 10 * w.v < 12 * E
    IN /\ Cardinality(fs) = (IF low THEN 1 ELSE 0)
       /\ \A i \in fs :
            /\ report.warnings[i].severity = "warning"
            /\ report.warnings[i].message = <<w.v, (13 * E + 9) \div 10>>

\* a 300 W psu with cpu and gpu filled: E = 475, threshold 570
C5_Witness ==
  /\ report # Pending
  /\ build.psu # Null
  /\ build.psu.wattage = Str(<<"3", "0", "0">>)
  /\ build.cpu # Null
  /\ build.gpu # Null
  /\ \E i \in FindingsOfType(report, "power") :
       report.warnings[i].message = <<300, 618>>

\* C6: a ram warning is emitted exactly when ram and motherboard are both
\* filled, ram.type and motherboard.ramType are non-empty, and the
\* motherboard ramType does not contain the ram type up to letter case.
C6_RamFinding ==
  report # Pending =>
    LET fs == FindingsOfType(report, "ram")
        mismatch ==
          /\ build.ram # Null
          /\ build.motherboard # Null
          /\ NonEmptyString(build.ram.type)
          /\ NonEmptyString(build.motherboard.ramType)
          /\ ~ContainsIgnoringCase(build.motherboard.ramType.v, build.ram.type.v)
    IN /\ Cardinality(fs) = (IF mismatch THEN 1 ELSE 0)
       /\ \A i \in fs : report.warnings[i].severity = "warning"

\* a motherboard declaring DDR4/DDR5 accepts lower-case ddr5 ram
C6_Witness ==
  /\ report # Pending
  /\ build.ram # Null
  /\ build.motherboard # Null
  /\ build.ram.type = Str(<<"d", "d", "r", "5">>)
  /\ build.motherboard.ramType =
       Str(<<"D", "D", "R", "4", "/", "D", "D", "R", "5">>)
  /\ FindingsOfType(report, "ram") = {}

\* C7: isCompatible is true exactly when no finding has severity error; ram
\* and power warnings, alone or together, leave it true.
C7_IsCompatible ==
  report # Pending =>
    /\ report.isCompatible <=>
         (\A i \in 1..Len(report.warnings) : report.warnings[i].severity # "error")
    /\ FindingsOfType(report, "socket") = {} => report.isCompatible

\* a report with both warnings that is still compatible
C7_Witness ==
  /\ report # Pending
  /\ FindingsOfType(report, "ram") # {}
  /\ FindingsOfType(report, "power") # {}
  /\ FindingsOfType(report, "socket") = {}
  /\ report.isCompatible

(***************************************************************************)
(* Catalog index and budget allocator                                      *)
(***************************************************************************)
\* one iteration of the grouping loop of getComponentsStructured
GroupStep_prepends(grouped, c) ==
  IF c.category \notin DOMAIN grouped
  THEN grouped @@ (c.category :> <<c>>)
  ELSE [grouped EXCEPT ![c.category] = <<c>> \o @]

\* if (!grouped[c.category]) grouped[c.category] = []; grouped[c.category].push(c)
GroupStep(grouped, c) ==
  IF c.category \notin DOMAIN grouped
  THEN grouped @@ (c.category :> <<c>>)
  ELSE [grouped EXCEPT ![c.category] = Append(@, c)]

RECURSIVE GroupFrom(_, _)
GroupFrom(grouped, list) ==
  IF list = <<>> THEN grouped
  ELSE GroupFrom(GroupStep(grouped, Head(list)), Tail(list))

\* Group components by category
getComponentsStructured(list) == GroupFrom(<<>>, list)

\* the allocation presets: the entries of each profile in source order, the
\* fraction f written as the decimal literal f/100
allocations ==
  [gaming |-> <<<<"cpu", 20>>, <<"gpu", 35>>, <<"motherboard", 12>>,
                <<"ram", 10>>, <<"storage", 8>>, <<"psu", 8>>, <<"pcCase", 7>>>>,
   productivity |-> <<<<"cpu", 30>>, <<"gpu", 20>>, <<"motherboard", 12>>,
                      <<"ram", 15>>, <<"storage", 10>>, <<"psu", 7>>,
                      <<"pcCase", 6>>>>,
   general |-> <<<<"cpu", 25>>, <<"gpu", 25>>, <<"motherboard", 12>>,
                 <<"ram", 12>>, <<"storage", 10>>, <<"psu", 8>>,
                 <<"pcCase", 8>>>>]

\* the properties every object literal inherits from Object.prototype
ObjectPrototypeKeys ==
  {"constructor", "toString", "toLocaleString", "valueOf", "hasOwnProperty",
   "isPrototypeOf", "propertyIsEnumerable", "__proto__"}

\* allocations[useCase]: an own preset, an inherited member of
\* Object.prototype (truthy, without own enumerable entries), or undefined
AllocationLookup(key) ==
  IF key \in DOMAIN allocations THEN Obj(allocations[key])
  ELSE IF key \in ObjectPrototypeKeys THEN Obj(<<>>)
  ELSE Undefined

Affordable_widerCeiling(c, budgetArg, percentage) ==
  LET categoryBudget == DoubleMul(DoubleOfInt(budgetArg),
                                  DoubleOfRatio(percentage, 100))
      ceiling == DoubleMul(categoryBudget, DoubleOfRatio(125, 100))
  IN Truthy(c.lowestPrice) /\ CompareIntDouble(c.lowestPrice.v, ceiling) <= 0

\* c.lowestPrice && c.lowestPrice <= categoryBudget * 1.15
Affordable(c, budgetArg, percentage) ==
  LET categoryBudget == DoubleMul(DoubleOfInt(budgetArg),
                                  DoubleOfRatio(percentage, 100))
      ceiling == DoubleMul(categoryBudget, DoubleOfRatio(115, 100))
  IN Truthy(c.lowestPrice) /\ CompareIntDouble(c.lowestPrice.v, ceiling) <= 0

\* c => ({ ...c, lowestPrice: getLowestPrice(c) })
WithLowestPrice(c) == c @@ [lowestPrice |-> getLowestPrice(c)]

\* insertion of x into a list sorted by descending lowestPrice, after the
\* elements that compare equal to it
RECURSIVE InsertDescending(_, _)
InsertDescending(x, sorted) ==
  IF sorted = <<>> THEN <<x>>
  ELSE IF Head(sorted).lowestPrice.v - x.lowestPrice.v < 0
       THEN <<x>> \o sorted
       ELSE <<Head(sorted)>> \o InsertDescending(x, Tail(sorted))

\* .sort((a, b) => b.lowestPrice - a.lowestPrice), a stable sort
RECURSIVE SortDescending(_)
SortDescending(list) ==
  IF list = <<>> THEN <<>>
  ELSE InsertDescending(list[Len(list)],
                        SortDescending(SubSeq(list, 1, Len(list) - 1)))

\* the affordable components of a category, best within budget first
AffordableSorted(db, category, budgetArg, percentage) ==
  LET components == IF category \in DOMAIN db THEN db[category] ELSE <<>>
      mapped == [i \in 1..Len(components) |-> WithLowestPrice(components[i])]
  IN SortDescending(
       SelectSeq(mapped, LAMBDA c : Affordable(c, budgetArg, percentage)))

RECURSIVE Recommend_nullWhenNone(_, _, _, _)
Recommend_nullWhenNone(found, entries, db, budgetArg) ==
  IF entries = <<>> THEN found
  ELSE LET category == Head(entries)[1]
           affordable == AffordableSorted(db, category, budgetArg, Head(entries)[2])
       IN Recommend_nullWhenNone(
            found @@ (category :> IF Len(affordable) > 0
                                  THEN affordable[1] ELSE Null),
            Tail(entries), db, budgetArg)

\* the loop over Object.entries(alloc)
RECURSIVE Recommend(_, _, _, _)
Recommend(found, entries, db, budgetArg) ==
  IF entries = <<>> THEN found
  ELSE LET category == Head(entries)[1]
           affordable == AffordableSorted(db, category, budgetArg, Head(entries)[2])
       IN Recommend(IF Len(affordable) > 0
                    THEN found @@ (category :> affordable[1]) ELSE found,
                    Tail(entries), db, budgetArg)

\* the default parameter useCase = 'gaming', then
\* allocations[useCase] || allocations.general
SelectAllocation(useCaseArg) ==
  LET use == IF useCaseArg = Undefined THEN Key("gaming") ELSE useCaseArg
      own == AllocationLookup(use.v)
  IN IF Truthy(own) THEN own.v ELSE allocations.general

getRecommendedBuild_performanceScalesBudget(budgetArg, useCaseArg, performanceArg, list) ==
  LET db == getComponentsStructured(list)
      alloc == SelectAllocation(useCaseArg)
      scaled == IF performanceArg = Key("budget") THEN budgetArg \div 2
                ELSE budgetArg
  IN Obj(Recommend(<<>>, alloc, db, scaled))

\* getRecommendedBuild(budget, useCase = 'gaming', performance = 'balanced')
\* on the list getComponents resolves to; the body never reads performance
getRecommendedBuild(budgetArg, useCaseArg, performanceArg, list) ==
  LET db == getComponentsStructured(list)
      alloc == SelectAllocation(useCaseArg)
  IN Obj(Recommend(<<>>, alloc, db, budgetArg))

(***************************************************************************)
(* Inputs of the budget allocator                                          *)
(***************************************************************************)
Offer(i, price, inStock) ==
  [t |-> "vendor", name |-> i, price |-> Num(price), inStock |-> Bool(inStock)]

\* catalog records; the id is unique within the category
CatalogPool ==
  {Component(1, "cpu", Arr(<<Offer(1, 14375, TRUE)>>)),
   Component(2, "cpu", Arr(<<Offer(1, 28000, TRUE), Offer(2, 27000, FALSE)>>)),
   Component(3, "cpu", Arr(<<Offer(1, 28750, TRUE)>>)),
   Component(4, "cpu", Arr(<<Offer(1, 35000, TRUE), Offer(2, 0, TRUE)>>)),
   Component(5, "cpu", Arr(<<Offer(1, 20000, FALSE)>>)),
   Component(6, "cpu", Arr(<<Offer(1, 29000, TRUE), Offer(2, 28000, TRUE)>>)),
   Component(1, "motherboard", Arr(<<Offer(1, 13000, TRUE)>>)),
   Component(2, "motherboard", Arr(<<Offer(1, 6000, TRUE)>>)),
   Component(1, "monitor", Arr(<<Offer(1, 5000, TRUE)>>))}

\* the lists of at most n distinct records of the pool
RECURSIVE CatalogLists(_)
CatalogLists(n) ==
  IF n = 0 THEN {<<>>}
  ELSE LET shorter == CatalogLists(n - 1)
           longest == {l \in shorter : Len(l) = n - 1}
           Fresh(l) == {c \in CatalogPool : \A i \in 1..Len(l) : l[i] # c}
       IN shorter \cup UNION {{Append(l, c) : c \in Fresh(l)} : l \in longest}

Budgets == {50000, 100000}

UseCases ==
  {Undefined, Key("gaming"), Key("productivity"), Key("general"),
   Key("office"), Key("constructor")}

\* the performance argument: omitted, or a value of the advisor form
Performances ==
  {Undefined, Key("budget"), Key("balanced"), Key("performance")}

(***************************************************************************)
(* Specification of the budget allocator: the catalog has been fetched,   *)
(* then getRecommendedBuild runs on it.                                    *)
(***************************************************************************)
InitRecommend ==
  /\ total = Idle
  /\ BuilderIdle
  /\ QueryIdle
  /\ PagesIdle
  /\ catalog \in CatalogLists(MaxCatalog)
  /\ budget \in Budgets
  /\ useCase \in UseCases
  /\ recommendations = Pending
  /\ component = Idle
  /\ lowest = Idle
  /\ best = Idle
  /\ build = Idle
  /\ report = Idle

CallGetRecommendedBuild ==
  /\ recommendations = Pending
  /\ recommendations' = getRecommendedBuild(budget, useCase, Undefined, catalog)
  /\ UNCHANGED <<component, lowest, best, build, report,
                 catalog, budget, useCase>>
  /\ UNCHANGED <<builderVars, queryVars, pageVars, total>>

NextRecommend == CallGetRecommendedBuild

SpecRecommend == InitRecommend /\ [][NextRecommend]_vars

(***************************************************************************)
(* Properties of the budget allocator                                      *)
(***************************************************************************)
PresetUseCases == {Key("gaming"), Key("productivity"), Key("general")}

\* the prices of the in-stock offers of c priced above zero
EligiblePrices(c) == {o.price.v : o \in EligibleOffers(c)}

LeastOf(prices) == CHOOSE p \in prices : \A q \in prices : p <= q

\* the positions of the catalog records of the category whose lowest
\* eligible price exists and is at most budget * (percentage/100) * 1.15
WithinCeiling(category, percentage) ==
  {i \in 1..Len(catalog) :
     /\ catalog[i].category = category
     /\ EligiblePrices(catalog[i]) # {}
     /\ LeastOf(EligiblePrices(catalog[i])) * 10000 <= budget * percentage * 115}

\* C8: in each category of the use-case profile getRecommendedBuild selects
\* the component with the highest lowest-eligible-price among the catalog
\* components of the category whose lowest eligible price exists and is
\* <= budget * fraction * 1.15, and none when there is no such component.
C8_SelectsPriciestWithinCeiling ==
  (recommendations # Pending /\ useCase \in PresetUseCases) =>
    \A k \in 1..Len(allocations[useCase.v]) :
      LET category == allocations[useCase.v][k][1]
          within == WithinCeiling(category, allocations[useCase.v][k][2])
      IN IF within = {} THEN category \notin DOMAIN recommendations.v
         ELSE /\ category \in DOMAIN recommendations.v
              /\ \E i \in within :
                   /\ catalog[i].id = recommendations.v[category].id
                   /\ \A j \in within :
                        LeastOf(EligiblePrices(catalog[j]))
                          <= LeastOf(EligiblePrices(catalog[i]))

\* the categories of the selected profile with a component that passes the
\* price filter of the recommender
QualifyingCategories ==
  LET alloc == SelectAllocation(useCase)
  IN {alloc[k][1] : k \in {n \in 1..Len(alloc) :
        \E i \in 1..Len(catalog) :
          /\ catalog[i].category = alloc[n][1]
          /\ Affordable(WithLowestPrice(catalog[i]), budget, alloc[n][2])}}

C10_UnknownUseCaseIsGeneral ==
  (recommendations # Pending /\ useCase \notin PresetUseCases) =>
    recommendations = getRecommendedBuild(budget, Key("general"), Undefined, catalog)

(***************************************************************************)
(* Specification of the budget allocator on a catalog that covers every    *)
(* allocated category                                                      *)
(***************************************************************************)
AllocatedCategories ==
  <<"cpu", "gpu", "motherboard", "ram", "storage", "psu", "pcCase">>

\* per category, 1.15 * fraction * 100000 for the fraction of the gaming preset
GamingCeilings ==
  [cpu |-> 23000, gpu |-> 40250, motherboard |-> 13800, ram |-> 11500,
   storage |-> 9200, psu |-> 9200, pcCase |-> 8050]

\* a catalog with, in every allocated category, a part priced just below
\* the ceiling and, in the categories of dearer, a part priced above it
RECURSIVE CoveringCatalog(_, _)
CoveringCatalog(k, dearer) ==
  IF k = 0 THEN <<>>
  ELSE LET category == AllocatedCategories[k]
           price == GamingCeilings[category]
       IN CoveringCatalog(k - 1, dearer)
            \o <<Component(1, category, Arr(<<Offer(1, price - 1, TRUE)>>))>>
            \o (IF category \in dearer
                THEN <<Component(2, category, Arr(<<Offer(1, price + 1000, TRUE)>>))>>
                ELSE <<>>)

CoveringCatalogs ==
  {CoveringCatalog(Len(AllocatedCategories), dearer) :
     dearer \in SUBSET {AllocatedCategories[k] : k \in 1..Len(AllocatedCategories)}}

InitAdvise ==
  /\ total = Idle
  /\ BuilderIdle
  /\ QueryIdle
  /\ PagesIdle
  /\ catalog \in CoveringCatalogs
  /\ budget \in Budgets
  /\ useCase \in PresetUseCases
  /\ recommendations = Pending
  /\ component = Idle
  /\ lowest = Idle
  /\ best = Idle
  /\ build = Idle
  /\ report = Idle

\* the call of the advisor page, which passes its performance setting
CallWithPerformance ==
  /\ recommendations = Pending
  /\ \E performance \in Performances :
       recommendations' = getRecommendedBuild(budget, useCase, performance, catalog)
  /\ UNCHANGED <<component, lowest, best, build, report,
                 catalog, budget, useCase>>
  /\ UNCHANGED <<builderVars, queryVars, pageVars, total>>

NextAdvise == CallWithPerformance

SpecAdvise == InitAdvise /\ [][NextAdvise]_vars

\* C21: the performance argument of getRecommendedBuild has no effect: on
\* the same catalog, budget and useCase every value of performance, the
\* omitted one included, gives the build the call returned.
C21_PerformanceIsNoOp ==
  recommendations # Pending =>
    \A performance \in Performances :
      getRecommendedBuild(budget, useCase, performance, catalog) = recommendations

\* a call that recommended at least one component
C21_Witness ==
  /\ recommendations # Pending
  /\ DOMAIN recommendations.v # {}
  /\ useCase \in PresetUseCases

\* the sum of the fractions of a preset, in hundredths
RECURSIVE SumOfFractions(_)
SumOfFractions(entries) ==
  IF entries = <<>> THEN 0 ELSE Head(entries)[2] + SumOfFractions(Tail(entries))

\* the lowest eligible price of the component recommended for the category,
\* 0 when none is
RecommendedPrice(category) ==
  IF category \in DOMAIN recommendations.v
  THEN LeastOf(EligiblePrices(recommendations.v[category]))
  ELSE 0

RecommendedTotal ==
  RecommendedPrice("cpu") + RecommendedPrice("gpu")
    + RecommendedPrice("motherboard") + RecommendedPrice("ram")
    + RecommendedPrice("storage") + RecommendedPrice("psu")
    + RecommendedPrice("pcCase") + RecommendedPrice("monitor")

\* C26: the fractions of each allocation preset sum to 1, and the lowest
\* prices of the components getRecommendedBuild returns sum to at most
\* 1.15 * budget.
C26_TotalWithinCeiling ==
  /\ \A preset \in DOMAIN allocations : SumOfFractions(allocations[preset]) = 100
  /\ recommendations # Pending => 100 * RecommendedTotal <= 115 * budget

\* a recommendation for all seven categories that costs more than the budget
C26_Witness ==
  /\ recommendations # Pending
  /\ DOMAIN recommendations.v =
       {AllocatedCategories[k] : k \in 1..Len(AllocatedCategories)}
  /\ RecommendedTotal > budget
  /\ 100 * RecommendedTotal <= 115 * budget

(***************************************************************************)
(* Objects, JSON text and base64.  An object is the sequence of its own    *)
(* enumerable entries <<key, value>> in insertion order, the key a string  *)
(* of characters; a text is a sequence of UTF-16 code units.               *)
(***************************************************************************)
Entries(e) == [t |-> "entries", v |-> e]

Text(codes) == [t |-> "text", v |-> codes]

\* the printable ASCII characters, from code 32 to code 126
Ascii ==
  <<" ", "!", "\"", "#", "$", "%", "&", "'", "(", ")", "*", "+", ",", "-",
    ".", "/", "0", "1", "2", "3", "4", "5", "6", "7", "8", "9", ":", ";",
    "<", "=", ">", "?", "@", "A", "B", "C", "D", "E", "F", "G", "H", "I",
    "J", "K", "L", "M", "N", "O", "P", "Q", "R", "S", "T", "U", "V", "W",
    "X", "Y", "Z", "[", "\\", "]", "^", "_", "U+0060", "a", "b", "c", "d", "e",
    "f", "g", "h", "i", "j", "k", "l", "m", "n", "o", "p", "q", "r", "s",
    "t", "u", "v", "w", "x", "y", "z", "{", "|", "}", "~">>

\* the code unit of a character; U+0060, U+00E9 and U+2122 stand for the
\* grave accent, the letter e with acute accent and the trade mark sign
CodeOf(ch) ==
  IF IndexIn(ch, Ascii) > 0 THEN IndexIn(ch, Ascii) + 31
  ELSE IF ch = "U+00E9" THEN 233
  ELSE IF ch = "U+2122" THEN 8482
  ELSE 65533

CharOf(code) ==
  IF code >= 32 /\ code <= 126 THEN Ascii[code - 31]
  ELSE IF code = 233 THEN "U+00E9"
  ELSE IF code = 8482 THEN "U+2122"
  ELSE "U+FFFD"

Codes(s) == [i \in 1..Len(s) |-> CodeOf(s[i])]

Chars(codes) == [i \in 1..Len(codes) |-> CharOf(codes[i])]

\* the value of obj[key], Undefined when obj has no such own property
RECURSIVE GetEntry(_, _)
GetEntry(entries, key) ==
  IF entries = <<>> THEN Undefined
  ELSE IF Head(entries)[1] = key THEN Head(entries)[2]
  ELSE GetEntry(Tail(entries), key)

OwnKeys(obj) == {obj.v[i][1] : i \in 1..Len(obj.v)}

\* { ...obj, [key]: value }: an existing key keeps its position
SpreadWith(obj, key, value) ==
  IF key \in OwnKeys(obj)
  THEN Entries([i \in 1..Len(obj.v) |->
                  IF obj.v[i][1] = key THEN <<key, value>> ELSE obj.v[i]])
  ELSE Entries(Append(obj.v, <<key, value>>))

RECURSIVE NumberCodes(_)
NumberCodes(n) ==
  IF n < 0 THEN <<45>> \o NumberCodes(0 - n)
  ELSE IF n < 10 THEN <<48 + n>>
  ELSE NumberCodes(n \div 10) \o <<48 + (n % 10)>>

\* the quoted form of a string: the quotation mark and the reverse solidus
\* are escaped
RECURSIVE QuoteCodes(_)
QuoteCodes(codes) ==
  IF codes = <<>> THEN <<>>
  ELSE (IF Head(codes) \in {34, 92} THEN <<92, Head(codes)>> ELSE <<Head(codes)>>)
       \o QuoteCodes(Tail(codes))

RECURSIVE StringifyValue(_)
RECURSIVE StringifyItems(_)
RECURSIVE StringifyMembers(_, _)
\* JSON.stringify of a value that is not undefined, as code units
StringifyValue(x) ==
  CASE x.t = "null" -> Codes(<<"n", "u", "l", "l">>)
    [] x.t = "NaN" -> Codes(<<"n", "u", "l", "l">>)
    [] x.t = "boolean" -> IF x.v THEN Codes(<<"t", "r", "u", "e">>)
                          ELSE Codes(<<"f", "a", "l", "s", "e">>)
    [] x.t = "number" -> NumberCodes(x.v)
    [] x.t = "string" -> <<34>> \o QuoteCodes(Codes(x.v)) \o <<34>>
    [] x.t = "array" -> <<91>> \o StringifyItems(x.v) \o <<93>>
    [] x.t = "entries" -> <<123>> \o StringifyMembers(x.v, TRUE) \o <<125>>

\* the elements of an array: undefined is written as null
StringifyItems(items) ==
  IF items = <<>> THEN <<>>
  ELSE (IF Head(items) = Undefined THEN Codes(<<"n", "u", "l", "l">>)
        ELSE StringifyValue(Head(items)))
       \o (IF Len(items) > 1 THEN <<44>> ELSE <<>>)
       \o StringifyItems(Tail(items))

\* the members of an object: a property whose value is undefined is left out
StringifyMembers(entries, first) ==
  IF entries = <<>> THEN <<>>
  ELSE IF Head(entries)[2] = Undefined
       THEN StringifyMembers(Tail(entries), first)
       ELSE (IF first THEN <<>> ELSE <<44>>)
            \o <<34>> \o QuoteCodes(Codes(Head(entries)[1])) \o <<34, 58>>
            \o StringifyValue(Head(entries)[2])
            \o StringifyMembers(Tail(entries), FALSE)

JSONstringify(x) == Text(StringifyValue(x))

\* the base64 character of a six-bit value
SextetCode(n) ==
  IF n < 26 THEN 65 + n
  ELSE IF n < 52 THEN 97 + (n - 26)
  ELSE IF n < 62 THEN 48 + (n - 52)
  ELSE IF n = 62 THEN 43 ELSE 47

\* the k-th character of the encoding: three bytes make four characters,
\* a last group of one or two bytes is padded with =
Base64Character(bytes, k) ==
  LET g == 3 * ((k - 1) \div 4)
      Byte(i) == IF g + i <= Len(bytes) THEN bytes[g + i] ELSE 0
      pos == (k - 1) % 4
  IN IF pos = 0 THEN SextetCode(Byte(1) \div 4)
     ELSE IF pos = 1 THEN SextetCode((Byte(1) % 4) * 16 + (Byte(2) \div 16))
     ELSE IF pos = 2
          THEN IF g + 2 > Len(bytes) THEN 61
               ELSE SextetCode((Byte(2) % 16) * 4 + (Byte(3) \div 64))
     ELSE IF g + 3 > Len(bytes) THEN 61 ELSE SextetCode(Byte(3) % 64)

Base64Encode(bytes) ==
  [k \in 1..(4 * ((Len(bytes) + 2) \div 3)) |-> Base64Character(bytes, k)]

\* btoa: throws on a character outside Latin1
btoa(text) ==
  IF \E i \in 1..Len(text.v) : text.v[i] > 255 THEN Thrown
  ELSE Text(Base64Encode(text.v))

\* the six-bit value of a base64 character, -1 for any other character
SextetOf(code) ==
  IF code >= 65 /\ code <= 90 THEN code - 65
  ELSE IF code >= 97 /\ code <= 122 THEN code - 97 + 26
  ELSE IF code >= 48 /\ code <= 57 THEN code - 48 + 52
  ELSE IF code = 43 THEN 62
  ELSE IF code = 47 THEN 63
  ELSE 0 - 1

\* the j-th byte of the decoding: four characters make three bytes, the
\* bits left over at the end are dropped
Base64Byte(sextets, j) ==
  LET g == 4 * ((j - 1) \div 3)
      pos == (j - 1) % 3
  IN IF pos = 0 THEN sextets[g + 1] * 4 + (sextets[g + 2] \div 16)
     ELSE IF pos = 1 THEN (sextets[g + 2] % 16) * 16 + (sextets[g + 3] \div 4)
     ELSE (sextets[g + 3] % 4) * 64 + sextets[g + 4]

Base64Decode(sextets) ==
  [j \in 1..((Len(sextets) * 6) \div 8) |-> Base64Byte(sextets, j)]

\* atob (forgiving-base64 decode): ASCII whitespace is removed, padding is
\* dropped when the length is a multiple of four, then a length of 4k+1 or
\* a character outside the alphabet throws
atob(text) ==
  LET data == SelectSeq(text.v, LAMBDA c : c \notin {9, 10, 12, 13, 32})
      n == Len(data)
      unpadded ==
        IF n > 0 /\ n % 4 = 0
        THEN IF data[n] = 61 /\ data[n - 1] = 61 THEN SubSeq(data, 1, n - 2)
             ELSE IF data[n] = 61 THEN SubSeq(data, 1, n - 1)
             ELSE data
        ELSE data
  IN IF \/ Len(unpadded) % 4 = 1
        \/ \E i \in 1..Len(unpadded) : SextetOf(unpadded[i]) < 0
     THEN Thrown
     ELSE Text(Base64Decode([i \in 1..Len(unpadded) |-> SextetOf(unpadded[i])]))

\* URLSearchParams.get on a value without percent escapes: + reads as space
SearchParamValue(text) ==
  Text([i \in 1..Len(text.v) |-> IF text.v[i] = 43 THEN 32 ELSE text.v[i]])

(***************************************************************************)
(* JSON.parse, by recursive descent over the code units.  A step returns   *)
(* the value read and the text that follows it, or a failure.              *)
(***************************************************************************)
Read(x, rest) == [ok |-> TRUE, v |-> x, rest |-> rest]

NoParse == [ok |-> FALSE]

RECURSIVE SkipWhitespace(_)
SkipWhitespace(s) ==
  IF s # <<>> /\ Head(s) \in {9, 10, 13, 32} THEN SkipWhitespace(Tail(s)) ELSE s

StartsWith(s, prefix) ==
  Len(s) >= Len(prefix) /\ SubSeq(s, 1, Len(prefix)) = prefix

\* the characters of a string literal after its opening quotation mark
RECURSIVE ParseString(_, _)
ParseString(s, acc) ==
  IF s = <<>> \/ Head(s) < 32 THEN NoParse
  ELSE IF Head(s) = 34 THEN Read(Str(Chars(acc)), Tail(s))
  ELSE IF Head(s) = 92
       THEN IF Len(s) >= 2 /\ s[2] \in {34, 92, 47}
            THEN ParseString(SubSeq(s, 3, Len(s)), Append(acc, s[2]))
            ELSE NoParse
  ELSE ParseString(Tail(s), Append(acc, Head(s)))

\* an integer literal without sign
RECURSIVE ParseDigits(_, _)
ParseDigits(s, acc) ==
  IF s # <<>> /\ Head(s) >= 48 /\ Head(s) <= 57
  THEN ParseDigits(Tail(s), acc * 10 + (Head(s) - 48))
  ELSE Read(Num(acc), s)

RECURSIVE ParseValue(_)
RECURSIVE ParseElements(_, _)
RECURSIVE ParseMembers(_, _)
ParseValue(text) ==
  LET s == SkipWhitespace(text)
  IN IF s = <<>> THEN NoParse
     ELSE IF Head(s) = 123
          THEN LET r == SkipWhitespace(Tail(s))
               IN IF r # <<>> /\ Head(r) = 125 THEN Read(Entries(<<>>), Tail(r))
                  ELSE ParseMembers(r, <<>>)
     ELSE IF Head(s) = 91
          THEN LET r == SkipWhitespace(Tail(s))
               IN IF r # <<>> /\ Head(r) = 93 THEN Read(Arr(<<>>), Tail(r))
                  ELSE ParseElements(r, <<>>)
     ELSE IF Head(s) = 34 THEN ParseString(Tail(s), <<>>)
     ELSE IF Head(s) >= 49 /\ Head(s) <= 57 THEN ParseDigits(s, 0)
     ELSE IF Head(s) = 48 THEN Read(Num(0), Tail(s))
     ELSE IF StartsWith(s, Codes(<<"n", "u", "l", "l">>))
          THEN Read(Null, SubSeq(s, 5, Len(s)))
     ELSE IF StartsWith(s, Codes(<<"t", "r", "u", "e">>))
          THEN Read(Bool(TRUE), SubSeq(s, 5, Len(s)))
     ELSE IF StartsWith(s, Codes(<<"f", "a", "l", "s", "e">>))
          THEN Read(Bool(FALSE), SubSeq(s, 6, Len(s)))
     ELSE NoParse

\* the elements of an array after its opening bracket
ParseElements(s, acc) ==
  LET item == ParseValue(s)
  IN IF ~item.ok THEN NoParse
     ELSE LET r == SkipWhitespace(item.rest)
          IN IF r = <<>> THEN NoParse
             ELSE IF Head(r) = 44 THEN ParseElements(Tail(r), Append(acc, item.v))
             ELSE IF Head(r) = 93 THEN Read(Arr(Append(acc, item.v)), Tail(r))
             ELSE NoParse

\* the members of an object after its opening brace
ParseMembers(text, acc) ==
  LET s == SkipWhitespace(text)
  IN IF s = <<>> \/ Head(s) # 34 THEN NoParse
     ELSE LET key == ParseString(Tail(s), <<>>)
          IN IF ~key.ok THEN NoParse
             ELSE LET c == SkipWhitespace(key.rest)
                  IN IF c = <<>> \/ Head(c) # 58 THEN NoParse
                     ELSE LET member == ParseValue(Tail(c))
                          IN IF ~member.ok THEN NoParse
                             ELSE LET r == SkipWhitespace(member.rest)
                                      entries == Append(acc, <<key.v.v, member.v>>)
                                  IN IF r = <<>> THEN NoParse
                                     ELSE IF Head(r) = 44
                                          THEN ParseMembers(Tail(r), entries)
                                     ELSE IF Head(r) = 125
                                          THEN Read(Entries(entries), Tail(r))
                                     ELSE NoParse

\* JSON.parse: throws unless the whole text is one value
JSONparse(text) ==
  LET parsed == ParseValue(text.v)
  IN IF parsed.ok /\ SkipWhitespace(parsed.rest) = <<>> THEN parsed.v ELSE Thrown

(***************************************************************************)
(* Catalog records and recommendations as objects                          *)
(***************************************************************************)
CategoryChars ==
  [cpu |-> <<"c", "p", "u">>,
   motherboard |-> <<"m", "o", "t", "h", "e", "r", "b", "o", "a", "r", "d">>,
   ram |-> <<"r", "a", "m">>,
   gpu |-> <<"g", "p", "u">>,
   storage |-> <<"s", "t", "o", "r", "a", "g", "e">>,
   psu |-> <<"p", "s", "u">>,
   pcCase |-> <<"p", "c", "C", "a", "s", "e">>,
   monitor |-> <<"m", "o", "n", "i", "t", "o", "r">>]

\* the own properties an object literal or a parsed record carries: an
\* attribute the record does not have is no property at all
Defined(fields) == Entries(SelectSeq(fields, LAMBDA e : e[2] # Undefined))

OfferObject(o) ==
  Defined(<<<<<<"n", "a", "m", "e">>, Str(<<"v", Digits[o.name + 1]>>)>>,
            <<<<"p", "r", "i", "c", "e">>, o.price>>,
            <<<<"i", "n", "S", "t", "o", "c", "k">>, o.inStock>>>>)

ComponentObject(c) ==
  Defined(<<<<<<"i", "d">>, Num(c.id)>>,
            <<<<"c", "a", "t", "e", "g", "o", "r", "y">>, Str(CategoryChars[c.category])>>,
            <<<<"n", "a", "m", "e">>, c.name>>,
            <<<<"b", "r", "a", "n", "d">>, c.brand>>,
            <<<<"v", "e", "n", "d", "o", "r", "s">>,
              IF c.vendors.t = "array"
              THEN Arr([i \in 1..Len(c.vendors.v) |-> OfferObject(c.vendors.v[i])])
              ELSE c.vendors>>,
            <<<<"s", "o", "c", "k", "e", "t">>, c.socket>>,
            <<<<"r", "a", "m", "T", "y", "p", "e">>, c.ramType>>,
            <<<<"t", "y", "p", "e">>, c.type>>,
            <<<<"w", "a", "t", "t", "a", "g", "e">>, c.wattage>>,
            <<<<"l", "o", "w", "e", "s", "t", "P", "r", "i", "c", "e">>,
              IF "lowestPrice" \in DOMAIN c THEN c.lowestPrice ELSE Undefined>>>>)

\* the object getRecommendedBuild returns: its keys in the order of the
\* allocation preset
RecommendationObject(budgetArg, useCaseArg, list) ==
  LET found == getRecommendedBuild(budgetArg, useCaseArg, Key("balanced"), list).v
      alloc == SelectAllocation(useCaseArg)
      chosen == SelectSeq(alloc, LAMBDA e : e[1] \in DOMAIN found)
  IN Entries([i \in 1..Len(chosen) |->
                <<CategoryChars[chosen[i][1]], ComponentObject(found[chosen[i][1]])>>])

(***************************************************************************)
(* Builder page and the advisor's hand-over to it.  The visitor is not     *)
(* logged in, accepts every confirm dialog and names every saved build.    *)
(***************************************************************************)
SavedLimit == 50

\* the capacity of the compare list
CompareLimit == 3

\* useState initializer of currentBuild, also the argument of clearBuild
EmptyBuild ==
  Entries(<<<<CategoryChars.cpu, Null>>, <<CategoryChars.motherboard, Null>>,
            <<CategoryChars.ram, Null>>, <<CategoryChars.gpu, Null>>,
            <<CategoryChars.storage, Null>>, <<CategoryChars.psu, Null>>,
            <<CategoryChars.pcCase, Null>>, <<CategoryChars.monitor, Null>>>>)

\* the catalog both pages fetch
BuilderCatalog ==
  <<[Component(1, "cpu", Arr(<<Offer(1, 9000, TRUE)>>))
       EXCEPT !.name = Str(<<"R", "5", "\"">>)],
    [Component(2, "cpu", Arr(<<Offer(1, 20000, TRUE)>>))
       EXCEPT !.name = Str(<<"R", "~", "7">>)],
    [Component(3, "cpu", Arr(<<Offer(1, 28000, TRUE)>>))
       EXCEPT !.name = Str(<<"i", "5", "U+2122">>)]>>

BuilderDb == getComponentsStructured(BuilderCatalog)

AdvisorUseCases == {Key("gaming"), Key("general")}

\* the items the picker of a category lists: db[category] || []
Listed(category) ==
  IF category \in DOMAIN BuilderDb THEN BuilderDb[category] ELSE <<>>

\* (db[category] || []).find(i => i.id === id)
FindItem(category, id) ==
  LET items == Listed(category)
      hits == {i \in 1..Len(items) : items[i].id = id}
  IN IF hits = {} THEN Undefined
     ELSE ComponentObject(items[CHOOSE i \in hits : \A j \in hits : i <= j])

\* the build parameter of a builder link: btoa(JSON.stringify(build))
EncodeBuild(b) == btoa(JSONstringify(b))

\* JSON.parse(atob(buildData)), either call may throw
DecodeBuild(buildData) ==
  LET bytes == atob(buildData)
  IN IF bytes = Thrown THEN Thrown ELSE JSONparse(bytes)

\* JSON.parse(localStorage.getItem('savedBuilds') || '[]'), [] when it throws
StoredBuilds(stored) ==
  LET parsed == JSONparse(IF stored.t = "text" /\ stored.v # <<>> THEN stored
                          ELSE Text(Codes(<<"[", "]">>)))
  IN IF parsed = Thrown THEN Arr(<<>>) ELSE parsed

InitBuilder ==
  /\ page = "advisor"
  /\ advisorBuild = Null
  /\ currentBuild = Idle
  /\ savedBuilds = Idle
  /\ localStorage = [savedBuilds |-> Null, savedBuild |-> Null]
  /\ link = Null
  /\ shared = Null
  /\ outcome = "done"
  /\ now = 1
  /\ EngineIdle
  /\ QueryIdle
  /\ PagesIdle

\* Query page: generateBuild stores the recommendation
generateBuild ==
  /\ page = "advisor"
  /\ \E targetBudget \in Budgets, targetUseCase \in AdvisorUseCases :
       advisorBuild' = RecommendationObject(targetBudget, targetUseCase, BuilderCatalog)
  /\ outcome' = "done"
  /\ UNCHANGED <<page, currentBuild, savedBuilds, localStorage, link,
                 shared, now, engineVars, queryVars, pageVars>>

\* Builder mounts at a location whose build parameter is buildData (Null
\* when absent): the useState initializers, then the effect that loads the
\* build of the URL and ignores a parameter it cannot decode
MountBuilder(buildData) ==
  /\ page' = "builder"
  /\ savedBuilds' = StoredBuilds(localStorage.savedBuilds)
  /\ IF buildData = Null
     THEN /\ currentBuild' = EmptyBuild
          /\ outcome' = "done"
     ELSE LET decoded == DecodeBuild(SearchParamValue(buildData))
          IN IF decoded = Thrown
             THEN /\ currentBuild' = EmptyBuild
                  /\ outcome' = "undecodable"
             ELSE /\ currentBuild' = decoded
                  /\ outcome' = "done"

\* Query page: openInBuilder navigates to the builder link of the
\* recommendation, unless btoa throws
openInBuilder ==
  /\ page = "advisor"
  /\ Truthy(advisorBuild)
  /\ LET encoded == EncodeBuild(advisorBuild)
     IN IF encoded = Thrown
        THEN /\ outcome' = "throw"
             /\ UNCHANGED <<page, currentBuild, savedBuilds, link, shared>>
        ELSE /\ link' = encoded
             /\ shared' = advisorBuild
             /\ MountBuilder(encoded)
  /\ UNCHANGED <<advisorBuild, localStorage, now, engineVars, queryVars, pageVars>>

\* the visitor opens /builder without a build parameter
visitBuilder ==
  /\ page = "advisor"
  /\ MountBuilder(Null)
  /\ UNCHANGED <<advisorBuild, localStorage, link, shared, now,
                 engineVars, queryVars, pageVars>>

\* the visitor opens the last link that shareBuild or openInBuilder made
followLink ==
  /\ link # Null
  /\ MountBuilder(link)
  /\ UNCHANGED <<advisorBuild, localStorage, link, shared, now,
                 engineVars, queryVars, pageVars>>

Mounted == page = "builder" /\ currentBuild.t = "entries"

\* the add button is enabled for a listed item that has a lowest price
addToBuild ==
  /\ Mounted
  /\ \E category \in Categories :
       \E i \in 1..Len(Listed(category)) :
         /\ Truthy(getLowestPrice(Listed(category)[i]))
         /\ currentBuild' = SpreadWith(currentBuild, CategoryChars[category],
                                       FindItem(category, Listed(category)[i].id))
  /\ outcome' = "done"
  /\ UNCHANGED <<page, advisorBuild, savedBuilds, localStorage, link,
                 shared, now, engineVars, queryVars, pageVars>>

\* Object.values(currentBuild).filter(Boolean).length
selectedCount ==
  Cardinality({i \in 1..Len(currentBuild.v) : Truthy(currentBuild.v[i][2])})

\* the clear button is enabled while a slot is filled
clearBuild ==
  /\ Mounted
  /\ selectedCount > 0
  /\ currentBuild' = EmptyBuild
  /\ outcome' = "done"
  /\ UNCHANGED <<page, advisorBuild, savedBuilds, localStorage, link,
                 shared, now, engineVars, queryVars, pageVars>>

\* a filled slot shows the remove button
removeItem ==
  /\ Mounted
  /\ \E category \in Categories :
       /\ Truthy(GetEntry(currentBuild.v, CategoryChars[category]))
       /\ currentBuild' = SpreadWith(currentBuild, CategoryChars[category], Null)
  /\ outcome' = "done"
  /\ UNCHANGED <<page, advisorBuild, savedBuilds, localStorage, link,
                 shared, now, engineVars, queryVars, pageVars>>

\* saveBuild of a visitor who is not logged in; Date.now() is the clock
saveBuild ==
  /\ Mounted
  /\ selectedCount > 0
  /\ now <= MaxSaves
  /\ LET entry == Entries(<<<<<<"i", "d">>, Num(now)>>,
                            <<<<"n", "a", "m", "e">>, Str(<<"b">>)>>,
                            <<<<"c", "r", "e", "a", "t", "e", "d", "A", "t">>,
                              Str(<<"T", Digits[now + 1]>>)>>,
                            <<<<"i", "t", "e", "m", "s">>, currentBuild>>>>)
         list == <<entry>> \o savedBuilds.v
         next == Arr(SubSeq(list, 1, IF Len(list) < SavedLimit THEN Len(list)
                                     ELSE SavedLimit))
     IN /\ savedBuilds' = next
        /\ localStorage' = [localStorage EXCEPT !.savedBuilds = JSONstringify(next)]
  /\ now' = now + 1
  /\ outcome' = "done"
  /\ UNCHANGED <<page, advisorBuild, currentBuild, link, shared,
                 engineVars, queryVars, pageVars>>

\* loadBuild reads the key savedBuild
loadBuild ==
  /\ Mounted
  /\ LET s == localStorage.savedBuild
     IN IF s.t = "text" /\ s.v # <<>>
        THEN IF JSONparse(s) = Thrown
             THEN /\ outcome' = "alert: failed to load"
                  /\ UNCHANGED currentBuild
             ELSE /\ currentBuild' = JSONparse(s)
                  /\ outcome' = "done"
        ELSE /\ outcome' = "alert: no saved build"
             /\ UNCHANGED currentBuild
  /\ UNCHANGED <<page, advisorBuild, savedBuilds, localStorage, link,
                 shared, now, engineVars, queryVars, pageVars>>

loadSavedById ==
  /\ Mounted
  /\ \E i \in 1..Len(savedBuilds.v) :
       currentBuild' = GetEntry(savedBuilds.v[i].v, <<"i", "t", "e", "m", "s">>)
  /\ outcome' = "done"
  /\ UNCHANGED <<page, advisorBuild, savedBuilds, localStorage, link,
                 shared, now, engineVars, queryVars, pageVars>>

\* shareBuild copies the builder link of the current build, unless btoa throws
shareBuild ==
  /\ Mounted
  /\ LET encoded == EncodeBuild(currentBuild)
     IN IF encoded = Thrown
        THEN /\ outcome' = "throw"
             /\ UNCHANGED <<link, shared>>
        ELSE /\ outcome' = "done"
             /\ link' = encoded
             /\ shared' = currentBuild
  /\ UNCHANGED <<page, advisorBuild, currentBuild, savedBuilds,
                 localStorage, now, engineVars, queryVars, pageVars>>

NextBuilder ==
  \/ generateBuild
  \/ openInBuilder
  \/ visitBuilder
  \/ followLink
  \/ addToBuild
  \/ clearBuild
  \/ removeItem
  \/ saveBuild
  \/ loadBuild
  \/ loadSavedById
  \/ shareBuild

SpecBuilder == InitBuilder /\ [][NextBuilder]_vars

(***************************************************************************)
(* Properties of the Builder page                                          *)
(***************************************************************************)
CategoryKeys == {CategoryChars[category] : category \in Categories}

\* a catalog record, with or without the lowestPrice the advisor adds
IsComponentObject(x) ==
  /\ x.t = "entries"
  /\ \E i \in 1..Len(BuilderCatalog) :
       \/ x = ComponentObject(BuilderCatalog[i])
       \/ x = ComponentObject(WithLowestPrice(BuilderCatalog[i]))

\* C11: the current build of the Builder page always has the eight category
\* keys cpu, motherboard, ram, gpu, storage, psu, pcCase and monitor, each
\* holding a component or null, whichever handlers ran and however the build
\* was loaded, the advisor's recommendation included
C11_EightCategoryKeys ==
  page = "builder" =>
    /\ OwnKeys(currentBuild) = CategoryKeys
    /\ \A i \in 1..Len(currentBuild.v) :
         currentBuild.v[i][2] = Null \/ IsComponentObject(currentBuild.v[i][2])

\* C12: sharing never fails to encode, and the Builder page opened at a
\* builder link decodes it into a build equal to the one that was encoded
C12_ShareRoundTrip ==
  [][/\ (shareBuild \/ openInBuilder) => outcome' # "throw"
     /\ followLink => currentBuild' = shared
     /\ (openInBuilder /\ outcome' # "throw") => currentBuild' = advisorBuild]_vars

\* C29: once saveBuild has stored a build on the device, loadBuild finds
\* it and makes it the current build; loadBuild reports that no saved build
\* was found only when none was ever saved.
C29_LoadFindsSavedBuild ==
  [][loadBuild =>
       IF savedBuilds.v # <<>>
       THEN /\ outcome' = "done"
            /\ currentBuild' = GetEntry(savedBuilds.v[1].v, <<"i", "t", "e", "m", "s">>)
       ELSE outcome' = "alert: no saved build"]_vars

(***************************************************************************)
(* Search and filter                                                       *)
(***************************************************************************)
\* ${x} in a template literal
TemplateText(x) ==
  CASE x.t = "string" -> x.v
    [] x.t = "undefined" -> <<"u", "n", "d", "e", "f", "i", "n", "e", "d">>
    [] x.t = "null" -> <<"n", "u", "l", "l">>

\* `${c.name} ${c.brand} ${c.category}`.toLowerCase()
SearchText(c) ==
  ToLowerCase(TemplateText(c.name) \o <<" ">> \o TemplateText(c.brand)
              \o <<" ">> \o CategoryChars[c.category])

\* s.split(/\s+/): a run of spaces at either end leaves an empty term there
RECURSIVE SplitWhitespace(_)
SplitWhitespace(s) ==
  LET spaces == {i \in 1..Len(s) : s[i] = " "}
  IN IF spaces = {} THEN <<s>>
     ELSE LET first == CHOOSE i \in spaces : \A j \in spaces : i <= j
              after == {i \in (first + 1)..Len(s) : s[i] # " "}
              next == IF after = {} THEN Len(s) + 1
                      ELSE CHOOSE i \in after : \A j \in after : i <= j
          IN <<SubSeq(s, 1, first - 1)>> \o SplitWhitespace(SubSeq(s, next, Len(s)))

MatchesTerms_anyTerm(c, terms) ==
  \E i \in 1..Len(terms) : Includes(SearchText(c), terms[i])

\* terms.every(term => searchText.includes(term))
MatchesTerms(c, terms) ==
  \A i \in 1..Len(terms) : Includes(SearchText(c), terms[i])

\* a.name.toLowerCase().includes(query.toLowerCase())
Exact(c, queryArg) == Includes(ToLowerCase(c.name.v), ToLowerCase(queryArg.v))

ExactCompare_exactLast(a, b, queryArg) ==
  IF Exact(a, queryArg) /\ ~Exact(b, queryArg) THEN 1
  ELSE IF ~Exact(a, queryArg) /\ Exact(b, queryArg) THEN 0 - 1
  ELSE 0

\* the comparator: prioritize exact name matches
ExactCompare(a, b, queryArg) ==
  IF Exact(a, queryArg) /\ ~Exact(b, queryArg) THEN 0 - 1
  ELSE IF ~Exact(a, queryArg) /\ Exact(b, queryArg) THEN 1
  ELSE 0

\* insertion of x into a sorted list, after the elements that do not
\* compare greater than it
RECURSIVE InsertExact(_, _, _)
InsertExact(x, sorted, queryArg) ==
  IF sorted = <<>> THEN <<x>>
  ELSE IF ExactCompare(Head(sorted), x, queryArg) > 0
       THEN <<x>> \o sorted
       ELSE <<Head(sorted)>> \o InsertExact(x, Tail(sorted), queryArg)

\* .sort(comparator), a stable sort
RECURSIVE SortExact(_, _)
SortExact(list, queryArg) ==
  IF list = <<>> THEN <<>>
  ELSE InsertExact(list[Len(list)],
                   SortExact(SubSeq(list, 1, Len(list) - 1), queryArg), queryArg)

fuzzySearch(queryArg, components) ==
  IF ~Truthy(queryArg) THEN components
  ELSE LET terms == SplitWhitespace(ToLowerCase(queryArg.v))
       IN Arr(SortExact(SelectSeq(components.v, LAMBDA c : MatchesTerms(c, terms)),
                        queryArg))

CategoryFilter_dropsFirst(list, f) ==
  IF Truthy(f.category)
  THEN LET kept == SelectSeq(list, LAMBDA c : c.category = f.category.v)
       IN IF kept = <<>> THEN kept ELSE Tail(kept)
  ELSE list

\* if (filters.category) ... c.category === filters.category
CategoryFilter(list, f) ==
  IF Truthy(f.category)
  THEN SelectSeq(list, LAMBDA c : c.category = f.category.v)
  ELSE list

BrandFilter_caseSensitive(list, f) ==
  IF Truthy(f.brand)
  THEN SelectSeq(list, LAMBDA c : c.brand.t = "string" /\ c.brand.v = f.brand.v)
  ELSE list

\* if (filters.brand) ... c.brand?.toLowerCase() === filters.brand.toLowerCase()
BrandFilter(list, f) ==
  IF Truthy(f.brand)
  THEN SelectSeq(list, LAMBDA c : /\ c.brand.t = "string"
                                  /\ ToLowerCase(c.brand.v) = ToLowerCase(f.brand.v))
  ELSE list

\* x || 0 on the value of getLowestPrice
OrZero(x) == IF Truthy(x) THEN x.v ELSE 0

\* if (filters.minPrice) ... (getLowestPrice(c) || 0) >= filters.minPrice
MinPriceFilter(list, f) ==
  IF Truthy(f.minPrice)
  THEN SelectSeq(list, LAMBDA c : OrZero(getLowestPrice(c)) >= f.minPrice.v)
  ELSE list

\* if (filters.maxPrice) ... price && price <= filters.maxPrice
MaxPriceFilter(list, f) ==
  IF Truthy(f.maxPrice)
  THEN SelectSeq(list, LAMBDA c : /\ Truthy(getLowestPrice(c))
                                  /\ getLowestPrice(c).v <= f.maxPrice.v)
  ELSE list

\* c.vendors?.some(v => v.inStock)
SomeInStock(c) ==
  /\ c.vendors.t = "array"
  /\ \E i \in 1..Len(c.vendors.v) : Truthy(c.vendors.v[i].inStock)

\* if (filters.inStock) ...
InStockFilter(list, f) ==
  IF Truthy(f.inStock) THEN SelectSeq(list, LAMBDA c : SomeInStock(c)) ELSE list

filterComponents(components, f) ==
  Arr(InStockFilter(MaxPriceFilter(MinPriceFilter(BrandFilter(
        CategoryFilter(components.v, f), f), f), f), f))

(***************************************************************************)
(* Inputs of filterComponents and fuzzySearch                              *)
(***************************************************************************)
FilterPool ==
  {[Component(1, "cpu", Arr(<<Offer(1, 4000, TRUE)>>))
      EXCEPT !.brand = Str(<<"A", "M", "D">>)],
   [Component(2, "cpu", Arr(<<Offer(1, 5000, TRUE), Offer(2, 4000, FALSE)>>))
      EXCEPT !.brand = Str(<<"a", "m", "d">>)],
   [Component(3, "gpu", Arr(<<Offer(1, 5000, FALSE)>>))
      EXCEPT !.brand = Str(<<"N", "V">>)],
   Component(4, "gpu", Undefined),
   [Component(5, "cpu", Arr(<<Offer(1, 0, TRUE)>>))
      EXCEPT !.brand = Str(<<"A", "M", "D">>)]}

\* the lists of at most n distinct records of the pool
RECURSIVE ListsOf(_, _)
ListsOf(pool, n) ==
  IF n = 0 THEN {<<>>}
  ELSE LET shorter == ListsOf(pool, n - 1)
           longest == {l \in shorter : Len(l) = n - 1}
           Fresh(l) == {c \in pool : \A i \in 1..Len(l) : l[i] # c}
       IN shorter \cup UNION {{Append(l, c) : c \in Fresh(l)} : l \in longest}

FilterSets ==
  [category : {Null, Key("cpu"), Key("gpu")},
   brand : {Null, Str(<<>>), Str(<<"a", "m", "d">>), Str(<<"A", "M", "D">>)},
   minPrice : {Null, Num(0), Num(4500)},
   maxPrice : {Null, Num(0), Num(5000)},
   inStock : {Undefined, Bool(FALSE), Bool(TRUE)}]

SearchPool ==
  {[Component(1, "cpu", NoOffers)
      EXCEPT !.name = Str(<<"R", "5">>), !.brand = Str(<<"A", "M", "D">>)],
   [Component(2, "cpu", NoOffers)
      EXCEPT !.name = Str(<<"i", "5">>), !.brand = Str(<<"I", "n", "t", "e", "l">>)],
   [Component(3, "gpu", NoOffers)
      EXCEPT !.name = Str(<<"A", "m", "d", " ", "R", "X">>),
             !.brand = Str(<<"A", "M", "D">>)],
   [Component(4, "gpu", NoOffers)
      EXCEPT !.name = Str(<<"R", "X", " ", "5">>), !.brand = Str(<<"A", "M", "D">>)]}

Queries ==
  {Str(<<>>), Str(<<" ">>), Str(<<"a", "m", "d">>), Str(<<"A", "M", "D", " ", "r">>),
   Str(<<" ", "5">>), Str(<<"r", "x", " ", " ", "g", "p", "u">>),
   Str(<<"5", " ", "c", "p", "u", " ">>), Str(<<"d", "c">>),
   Str(<<"r", "x", " ", "5">>)}

(***************************************************************************)
(* Specifications of the filter and of the search: a list and the          *)
(* arguments are chosen, then the function is applied once.                *)
(***************************************************************************)
InitFilter ==
  /\ searchInput \in {Arr(l) : l \in ListsOf(FilterPool, MaxItems)}
  /\ filters \in FilterSets
  /\ filterResult = Pending
  /\ query = Idle
  /\ searchResult = Idle
  /\ EngineIdle
  /\ BuilderIdle
  /\ PagesIdle

CallFilterComponents ==
  /\ filterResult = Pending
  /\ filterResult' = filterComponents(searchInput, filters)
  /\ UNCHANGED <<searchInput, filters, query, searchResult, engineVars, builderVars, pageVars>>

NextFilter == CallFilterComponents

SpecFilter == InitFilter /\ [][NextFilter]_vars

InitSearch ==
  /\ searchInput \in {Arr(l) : l \in ListsOf(SearchPool, MaxItems)}
  /\ query \in Queries
  /\ searchResult = Pending
  /\ filters = Idle
  /\ filterResult = Idle
  /\ EngineIdle
  /\ BuilderIdle
  /\ PagesIdle

CallFuzzySearch ==
  /\ searchResult = Pending
  /\ searchResult' = fuzzySearch(query, searchInput)
  /\ UNCHANGED <<searchInput, filters, query, filterResult, engineVars, builderVars, pageVars>>

NextSearch == CallFuzzySearch

SpecSearch == InitSearch /\ [][NextSearch]_vars

(***************************************************************************)
(* Properties of the filter and of the search                              *)
(***************************************************************************)
\* C13: filtering the result of filterComponents again with the same
\* filters returns that result unchanged
C13_FilterIdempotent ==
  filterResult # Pending => filterComponents(filterResult, filters) = filterResult

C13_Witness ==
  /\ filterResult # Pending
  /\ Len(filterResult.v) > 0
  /\ Len(filterResult.v) < Len(searchInput.v)

\* the lowest price of c, 0 when it has no eligible offer
LowestOrZero(c) ==
  IF EligiblePrices(c) = {} THEN 0 ELSE LeastOf(EligiblePrices(c))

\* c satisfies every filter of f that is set
Satisfies(c, f) ==
  /\ Truthy(f.category) => c.category = f.category.v
  /\ Truthy(f.brand) => c.brand.t = "string" /\ EqualIgnoringCase(c.brand.v, f.brand.v)
  /\ Truthy(f.minPrice) => LowestOrZero(c) >= f.minPrice.v
  /\ Truthy(f.maxPrice) =>
       EligiblePrices(c) # {} /\ LeastOf(EligiblePrices(c)) <= f.maxPrice.v
  /\ Truthy(f.inStock) =>
       /\ c.vendors.t = "array"
       /\ \E i \in 1..Len(c.vendors.v) : c.vendors.v[i].inStock = Bool(TRUE)

\* C14: filterComponents returns, in their original order, exactly the
\* components that satisfy every filter that is set: equal category, brand
\* equal up to case, lowest price (0 when absent) at least minPrice, lowest
\* price present and at most maxPrice, an in-stock vendor when inStock is
\* set; a filter that is unset or falsy imposes nothing
C14_FilterIsConjunction ==
  filterResult # Pending =>
    filterResult.v = SelectSeq(searchInput.v, LAMBDA c : Satisfies(c, filters))

C14_Witness ==
  /\ filterResult # Pending
  /\ Truthy(filters.category)
  /\ Truthy(filters.brand)
  /\ Truthy(filters.minPrice)
  /\ Truthy(filters.maxPrice)
  /\ Truthy(filters.inStock)
  /\ Len(filterResult.v) = 1
  /\ Len(searchInput.v) = 2
  /\ filterResult.v[1].brand # filters.brand

\* the maximal runs of characters other than the space in s
Tokens(s) ==
  {SubSeq(s, p[1], p[2]) : p \in
     {r \in (1..Len(s)) \X (1..Len(s)) :
        /\ r[1] <= r[2]
        /\ \A k \in r[1]..r[2] : s[k] # " "
        /\ (r[1] = 1 \/ s[r[1] - 1] = " ")
        /\ (r[2] = Len(s) \/ s[r[2] + 1] = " ")}}

\* name, brand and category of c, one after the other with a space between
NameBrandCategory(c) ==
  c.name.v \o <<" ">> \o c.brand.v \o <<" ">> \o CategoryChars[c.category]

\* every token of the query occurs in the text of c, up to letter case
MatchesQuery(c, q) ==
  \A token \in Tokens(q) : ContainsIgnoringCase(NameBrandCategory(c), token)

\* C15: for a non-empty query fuzzySearch returns exactly the components of
\* which the text made of name, brand and category contains every
\* whitespace-separated token of the query, up to letter case
C15_SearchMatchesAllTokens ==
  (searchResult # Pending /\ query.v # <<>>) =>
    /\ {searchResult.v[i] : i \in 1..Len(searchResult.v)}
         = {searchInput.v[i] : i \in
              {j \in 1..Len(searchInput.v) : MatchesQuery(searchInput.v[j], query.v)}}
    /\ Len(searchResult.v)
         = Cardinality({j \in 1..Len(searchInput.v) :
                          MatchesQuery(searchInput.v[j], query.v)})

C15_Witness ==
  /\ searchResult # Pending
  /\ Cardinality(Tokens(query.v)) = 2
  /\ Len(searchResult.v) > 0
  /\ Len(searchResult.v) < Len(searchInput.v)

\* the position of c in the list given to fuzzySearch
InputPosition(c) == CHOOSE i \in 1..Len(searchInput.v) : searchInput.v[i] = c

\* the name of c contains the whole query, up to letter case
NameHasQuery(c) == ContainsIgnoringCase(c.name.v, query.v)

\* C16: in the result of fuzzySearch the components whose name contains the
\* full untokenized query come before those whose name does not, and inside
\* each of the two groups the input order is kept
C16_ExactNameFirst ==
  (searchResult # Pending /\ query.v # <<>>) =>
    \A i \in 1..Len(searchResult.v), j \in 1..Len(searchResult.v) :
      i < j =>
        /\ ~(~NameHasQuery(searchResult.v[i]) /\ NameHasQuery(searchResult.v[j]))
        /\ (NameHasQuery(searchResult.v[i]) = NameHasQuery(searchResult.v[j])
              => InputPosition(searchResult.v[i]) < InputPosition(searchResult.v[j]))

C16_Witness ==
  /\ searchResult # Pending
  /\ Len(searchResult.v) = 3
  /\ NameHasQuery(searchResult.v[1])
  /\ ~NameHasQuery(searchResult.v[2])
  /\ ~NameHasQuery(searchResult.v[3])
  /\ InputPosition(searchResult.v[1]) = 3

(***************************************************************************)
(* Build total, and the engine applied to one build snapshot               *)
(***************************************************************************)
\* the keys of a build in the order Object.values visits them
BuildKeys ==
  <<"cpu", "motherboard", "ram", "gpu", "storage", "psu", "pcCase", "monitor">>

\* Object.values(selectedComponents).filter(Boolean)
SelectedValues(b) ==
  LET values == [i \in 1..Len(BuildKeys) |-> b[BuildKeys[i]]]
  IN SelectSeq(values, LAMBDA comp : Truthy(comp))

TotalStep_firstOffer(sum, comp) ==
  sum + (IF HasVendors(comp) /\ comp.vendors.v[1].price.t = "number"
         THEN comp.vendors.v[1].price.v ELSE 0)

\* (sum, comp) => sum + (getLowestPrice(comp) || 0)
TotalStep(sum, comp) == sum + OrZero(getLowestPrice(comp))

\* Array.prototype.reduce with the initial value sum
RECURSIVE ReduceTotal(_, _)
ReduceTotal(sum, comps) ==
  IF comps = <<>> THEN sum
  ELSE ReduceTotal(TotalStep(sum, Head(comps)), Tail(comps))

calculateBuildTotal(selectedComponents) ==
  Num(ReduceTotal(0, SelectedValues(selectedComponents)))

\* calculateBuildTotal raises when getLowestPrice raises on a selected part
calculateBuildTotalRaises(selectedComponents) ==
  \E i \in 1..Len(SelectedValues(selectedComponents)) :
    VendorsRaise(SelectedValues(selectedComponents)[i])

\* an offer in the legacy shape: availability under stock, no inStock
LegacyOffer(i, price, stock) ==
  [t |-> "vendor", name |-> i, price |-> Num(price), inStock |-> Undefined,
   stock |-> Bool(stock)]

\* v[key], undefined when the offer has no such property
OfferField(v, key) == IF key \in DOMAIN v THEN v[key] ELSE Undefined

\* the stock badge of the vendor list: v.inStock || v.stock ? 'In Stock' : 'Out of Stock'
StockBadge(v) ==
  IF Truthy(v.inStock) \/ Truthy(OfferField(v, "stock"))
  THEN "In Stock" ELSE "Out of Stock"

SnapshotCpus ==
  {Null,
   Component(1, "cpu", Undefined),
   Component(4, "cpu", Arr(<<LegacyOffer(1, 4500, TRUE)>>)),
   [Component(2, "cpu", Arr(<<Offer(1, 4000, TRUE)>>))
      EXCEPT !.socket = Str(<<"A", "M", "5">>)],
   [Component(3, "cpu", NoOffers) EXCEPT !.socket = Num(1700)]}

SnapshotMotherboards ==
  {Null,
   [Component(1, "motherboard", Arr(<<Offer(1, 5000, FALSE), Offer(2, 6000, TRUE)>>))
      EXCEPT !.socket = Str(<<"A", "M", "4">>)],
   [Component(2, "motherboard", Null)
      EXCEPT !.ramType = Str(<<"D", "D", "R", "4">>)]}

SnapshotRams ==
  {Null,
   Component(1, "ram", Arr(<<Offer(1, 0, TRUE)>>)),
   [Component(2, "ram", Arr(<<Offer(1, 3000, TRUE)>>))
      EXCEPT !.type = Str(<<"D", "D", "R", "5">>)]}

SnapshotGpus ==
  {Null,
   Component(1, "gpu", Arr(<<Offer(1, 9000, TRUE), Offer(2, 8000, TRUE)>>)),
   Component(2, "gpu", Str(<<"n", "o", "n", "e">>))}

SnapshotPsus ==
  {Null,
   Component(1, "psu", Undefined),
   [Component(2, "psu", Arr(<<Offer(1, 2000, TRUE)>>))
      EXCEPT !.wattage = Str(<<"a", "b", "c">>)],
   [Component(3, "psu", NoOffers) EXCEPT !.wattage = Num(0)],
   [Component(4, "psu", Arr(<<Offer(1, 2500, TRUE)>>))
      EXCEPT !.wattage = Str(<<"3", "0", "0">>)]}

SnapshotMonitors ==
  {Null, Component(1, "monitor", Arr(<<Offer(1, 7000, TRUE), Null>>))}

SnapshotBuilds ==
  [cpu : SnapshotCpus, motherboard : SnapshotMotherboards, ram : SnapshotRams,
   gpu : SnapshotGpus, storage : {Null}, psu : SnapshotPsus, pcCase : {Null},
   monitor : SnapshotMonitors]

(***************************************************************************)
(* Specification of the engine on a build snapshot: a build and one of its *)
(* slots are chosen, then each function is applied once, in any order.     *)
(***************************************************************************)
InitSnapshot ==
  /\ build \in SnapshotBuilds
  /\ \E slot \in {"cpu", "psu", "monitor"} : component = build[slot]
  /\ lowest = Pending
  /\ best = Pending
  /\ report = Pending
  /\ total = Pending
  /\ catalog = <<>>
  /\ budget = 0
  /\ useCase = Idle
  /\ recommendations = Idle
  /\ BuilderIdle
  /\ QueryIdle
  /\ PagesIdle

CallCalculateBuildTotal_prunesEmptySlots ==
  /\ total = Pending
  /\ total' = IF calculateBuildTotalRaises(build) THEN Thrown
              ELSE calculateBuildTotal(build)
  /\ build' = [k \in {c \in DOMAIN build : Truthy(build[c])} |-> build[k]]
  /\ UNCHANGED <<component, lowest, best, report,
                 catalog, budget, useCase, recommendations>>
  /\ UNCHANGED <<builderVars, queryVars, pageVars>>

CallCalculateBuildTotal ==
  /\ total = Pending
  /\ total' = IF calculateBuildTotalRaises(build) THEN Thrown
              ELSE calculateBuildTotal(build)
  /\ UNCHANGED <<component, lowest, best, build, report,
                 catalog, budget, useCase, recommendations>>
  /\ UNCHANGED <<builderVars, queryVars, pageVars>>

NextSnapshot ==
  \/ CallGetLowestPrice
  \/ CallGetBestVendor
  \/ CallCheckCompatibility
  \/ CallCalculateBuildTotal

SpecSnapshot == InitSnapshot /\ [][NextSnapshot]_vars

(***************************************************************************)
(* Properties of the engine on a build snapshot                            *)
(***************************************************************************)
\* the vendors of c are absent, or a list of offers
OffersOrAbsent(c) ==
  \/ c.vendors.t \in {"undefined", "null"}
  \/ /\ c.vendors.t = "array"
     /\ \A i \in 1..Len(c.vendors.v) : c.vendors.v[i].t = "vendor"

\* the lowest eligible price of the component in the slot, 0 when the slot
\* is empty or the component has no eligible price
SlotPrice(b, slot) ==
  IF b[slot].t # "component" \/ b[slot].vendors.t # "array" THEN 0
  ELSE LowestOrZero(b[slot])

\* the attribute is missing, or it is text
TextOrMissing(x) == x.t \in {"undefined", "string"}

\* the wattage is missing, zero, or text without any digit
NoWattage(w) ==
  \/ w.t = "undefined"
  \/ w.t = "number" /\ w.v = 0
  \/ /\ w.t = "string"
     /\ \A i \in 1..Len(w.v) :
          w.v[i] \notin {"0", "1", "2", "3", "4", "5", "6", "7", "8", "9"}

\* every attribute of the build is well-formed or has one of the defects:
\* no socket, no ram type, no or non-numeric wattage, no vendors
OnlyListedDefects(b) ==
  \A slot \in DOMAIN b :
    b[slot].t = "component" =>
      /\ OffersOrAbsent(b[slot])
      /\ TextOrMissing(b[slot].socket)
      /\ TextOrMissing(b[slot].ramType)
      /\ TextOrMissing(b[slot].type)

\* C17: calculateBuildTotal(build) is the sum, over the non-empty slots of
\* the build, of the lowest eligible price of the slot's component, a slot
\* whose component has no eligible price contributing 0; the total of the
\* empty build is 0.
C17_TotalIsSumOfLowest ==
  total.t = "number" =>
    /\ total.v = SlotPrice(build, "cpu") + SlotPrice(build, "motherboard")
                 + SlotPrice(build, "ram") + SlotPrice(build, "gpu")
                 + SlotPrice(build, "storage") + SlotPrice(build, "psu")
                 + SlotPrice(build, "pcCase") + SlotPrice(build, "monitor")
    /\ (\A slot \in DOMAIN build : build[slot] = Null) => total.v = 0

\* a total over a priced part and a filled slot without an eligible price
C17_Witness ==
  /\ total.t = "number"
  /\ total.v > 0
  /\ build.gpu.t = "component"
  /\ SlotPrice(build, "gpu") > 0
  /\ build.psu.t = "component"
  /\ SlotPrice(build, "psu") = 0

\* C18: on a build whose components have missing or invalid attributes (no
\* socket, no ram type, no or non-numeric psu wattage, no vendors) the four
\* functions return normally: the check on the affected attribute yields
\* no finding and the price of a component without vendors is absent.
C18_DefectsDegrade ==
  OnlyListedDefects(build) =>
    /\ lowest # Thrown
    /\ best # Thrown
    /\ report # Thrown
    /\ total # Thrown
    /\ (lowest # Pending /\ ~HasVendors(component)) => lowest = Null
    /\ (best # Pending /\ ~HasVendors(component)) => best = Null
    /\ report # Pending =>
         /\ (\/ build.cpu.t = "component" /\ build.cpu.socket = Undefined
             \/ build.motherboard.t = "component"
                  /\ build.motherboard.socket = Undefined)
              => FindingsOfType(report, "socket") = {}
         /\ (\/ build.ram.t = "component" /\ build.ram.type = Undefined
             \/ build.motherboard.t = "component"
                  /\ build.motherboard.ramType = Undefined)
              => FindingsOfType(report, "ram") = {}
         /\ (build.psu.t = "component" /\ NoWattage(build.psu.wattage))
              => FindingsOfType(report, "power") = {}

\* every function has returned on a build with a cpu lacking socket and
\* vendors beside a motherboard, and a psu of non-numeric wattage
C18_Witness ==
  /\ OnlyListedDefects(build)
  /\ build.cpu.t = "component"
  /\ build.cpu.socket = Undefined
  /\ build.cpu.vendors = Undefined
  /\ component = build.cpu
  /\ build.motherboard.t = "component"
  /\ build.psu.t = "component"
  /\ build.psu.wattage.t = "string"
  /\ NoWattage(build.psu.wattage)
  /\ lowest = Null
  /\ best = Null
  /\ report \notin {Pending, Thrown}
  /\ report.warnings = <<>>
  /\ total.t = "number"

\* C19: checkCompatibility and calculateBuildTotal leave the build they
\* receive as it was: the same keys, and in every slot the same component
\* with the same attributes and vendors.
C19_BuildNotMutated ==
  [][(CallCheckCompatibility \/ CallCalculateBuildTotal) => build' = build]_vars

\* both functions have been applied to a build with a filled and an empty slot
C19_Witness ==
  /\ report \notin {Pending, Thrown}
  /\ total.t = "number"
  /\ build.gpu.t = "component"
  /\ build.cpu = Null

\* C23: an offer the vendor list shows as 'In Stock' (inStock, or its
\* legacy alias stock) and priced above zero is an eligible offer:
\* getLowestPrice returns a price no higher than its price and getBestVendor
\* an offer no dearer than it.
C23_StockAliasEligible ==
  /\ (lowest \notin {Pending, Thrown} /\ HasVendors(component)) =>
       \A i \in 1..Len(component.vendors.v) :
         LET v == component.vendors.v[i]
         IN (StockBadge(v) = "In Stock" /\ GreaterThanZero(v.price)) =>
              lowest.t = "number" /\ lowest.v <= v.price.v
  /\ (best \notin {Pending, Thrown} /\ HasVendors(component)) =>
       \A i \in 1..Len(component.vendors.v) :
         LET v == component.vendors.v[i]
         IN (StockBadge(v) = "In Stock" /\ GreaterThanZero(v.price)) =>
              best # Null /\ best.price.v <= v.price.v

(***************************************************************************)
(* Browse page: the compare list                                           *)
(***************************************************************************)
\* the uids of the listed items
Uids == {Str(<<"u", Digits[k + 1]>>) : k \in 1..MaxUids}

\* list.includes(uid)
ListIncludes(items, uid) == \E i \in 1..Len(items) : items[i] = uid

toggleCompare_appendsWhenFull(uid) ==
  /\ compareList' =
       IF ListIncludes(compareList.v, uid)
       THEN Arr(SelectSeq(compareList.v, LAMBDA x : x # uid))
       ELSE IF Len(compareList.v) > CompareLimit THEN compareList
       ELSE Arr(Append(compareList.v, uid))
  /\ compareStore' = JSONstringify(compareList')
  /\ UNCHANGED <<engineVars, builderVars, queryVars, ioVars, loadVars, advisorVars>>

\* toggleCompare, then the effect that stores the list under compareList
toggleCompare(uid) ==
  /\ compareList' =
       IF ListIncludes(compareList.v, uid)
       THEN Arr(SelectSeq(compareList.v, LAMBDA x : x # uid))
       ELSE IF Len(compareList.v) >= CompareLimit THEN compareList
       ELSE Arr(Append(compareList.v, uid))
  /\ compareStore' = JSONstringify(compareList')
  /\ UNCHANGED <<engineVars, builderVars, queryVars, ioVars, loadVars, advisorVars>>

\* the page mounted on a device without a stored list, and the effect ran
InitCompare ==
  /\ compareList = Arr(<<>>)
  /\ compareStore = JSONstringify(Arr(<<>>))
  /\ EngineIdle
  /\ BuilderIdle
  /\ QueryIdle
  /\ IoIdle
  /\ LoadIdle
  /\ AdvisorIdle

NextCompare == \E uid \in Uids : toggleCompare(uid)

SpecCompare == InitCompare /\ [][NextCompare]_vars

\* C28: the compare list never holds more than 3 ids nor an id twice;
\* toggling an id of the list removes it, toggling a new id appends it to a
\* list of fewer than 3, and leaves a full list as it is.
C28_CompareListBounded ==
  [][\A uid \in Uids :
       toggleCompare(uid) =>
         /\ Len(compareList'.v) <= 3
         /\ \A i, j \in 1..Len(compareList'.v) :
              compareList'.v[i] = compareList'.v[j] => i = j
         /\ IF \E i \in 1..Len(compareList.v) : compareList.v[i] = uid
            THEN /\ Len(compareList'.v) = Len(compareList.v) - 1
                 /\ \A i \in 1..Len(compareList'.v) : compareList'.v[i] # uid
            ELSE IF Len(compareList.v) < 3
            THEN compareList'.v = compareList.v \o <<uid>>
            ELSE compareList' = compareList]_vars

\* a full compare list
C28_Witness == compareList # Idle /\ Len(compareList.v) = 3

(***************************************************************************)
(* I/O helpers.  A request yields a network error or a response; the body  *)
(* of a response is the value its JSON text parses to, or Malformed.       *)
(***************************************************************************)
\* fetch rejects
NetworkError == [t |-> "network error"]

\* a body that res.json() cannot parse
Malformed == [t |-> "malformed"]

Response(ok, contentType, body) ==
  [t |-> "response", ok |-> ok, contentType |-> contentType, body |-> body]

\* a rejected promise
Rejected(message) == [t |-> "rejected", message |-> message]

\* res.json()
ResponseJson(res) ==
  IF res.body = Malformed THEN Rejected("SyntaxError") ELSE res.body

ApplicationJson == <<"a", "p", "p", "l", "i", "c", "a", "t", "i", "o", "n", "/", "j", "s", "o", "n">>

\* the try block of getComponents reaches its return statement
LiveUsable(res) ==
  /\ res # NetworkError
  /\ res.ok
  /\ Includes(IF Truthy(res.contentType) THEN res.contentType.v ELSE <<>>,
              ApplicationJson)

\* the catch block of getComponents
FetchFallback(fallbackRes) ==
  IF fallbackRes = NetworkError THEN Rejected("TypeError")
  ELSE IF ~fallbackRes.ok THEN Rejected("Failed to load components")
  ELSE ResponseJson(fallbackRes)

\* getComponents: the try block returns res.json() without awaiting it, so
\* a rejection of that promise is not handled by the catch block
getComponents(liveRes, fallbackRes) ==
  IF LiveUsable(liveRes) THEN ResponseJson(liveRes)
  ELSE FetchFallback(fallbackRes)

\* const list = await getComponents(), then the grouping
StructuredFrom(liveRes, fallbackRes) ==
  LET list == getComponents(liveRes, fallbackRes)
  IN IF list.t = "rejected" THEN list ELSE Obj(getComponentsStructured(list.v))

\* const db = await getComponentsStructured(), then the allocation
RecommendedFrom(budgetArg, useCaseArg, liveRes, fallbackRes) ==
  LET list == getComponents(liveRes, fallbackRes)
  IN IF list.t = "rejected" THEN list
     ELSE getRecommendedBuild(budgetArg, useCaseArg, Undefined, list.v)

\* getThreads: a request that fails or is not OK gives the empty list
getThreads(res) ==
  IF res = NetworkError \/ ~res.ok THEN Arr(<<>>) ELSE ResponseJson(res)

\* getSavedBuilds: a request that fails or is not OK gives the empty list
getSavedBuilds(res) ==
  IF res = NetworkError \/ ~res.ok THEN Arr(<<>>) ELSE ResponseJson(res)

IoPool ==
  {Component(1, "cpu", Arr(<<Offer(1, 20000, TRUE)>>)),
   Component(1, "gpu", Arr(<<Offer(1, 30000, TRUE)>>)),
   Component(2, "cpu", Arr(<<Offer(1, 9000, TRUE)>>))}

StaticList == <<Component(3, "cpu", Arr(<<Offer(1, 21000, TRUE)>>))>>

ContentTypes ==
  {Null, Str(<<"t", "e", "x", "t", "/", "h", "t", "m", "l">>),
   Str(<<"a", "p", "p", "l", "i", "c", "a", "t", "i", "o", "n", "/", "j", "s", "o", "n", ";", " ", "c", "h", "a", "r", "s", "e", "t", "=", "u", "t", "f", "-", "8">>)}

LiveResponses ==
  {NetworkError} \cup
  {Response(ok, contentType, body) :
     ok \in BOOLEAN, contentType \in ContentTypes,
     body \in {Malformed} \cup {Arr(l) : l \in ListsOf(IoPool, MaxItems)}}

FallbackResponses ==
  {NetworkError} \cup
  {Response(ok, Str(ApplicationJson), body) :
     ok \in BOOLEAN, body \in {Malformed, Arr(StaticList)}}

(***************************************************************************)
(* Specification of the I/O helpers: the outcome of each request is        *)
(* chosen, then each helper is called once, in any order.                  *)
(***************************************************************************)
InitIo ==
  /\ live \in LiveResponses
  /\ fallback \in FallbackResponses
  /\ promises = [getComponents |-> Pending, getComponentsStructured |-> Pending,
                 getRecommendedBuild |-> Pending, getThreads |-> Pending,
                 getSavedBuilds |-> Pending]
  /\ EngineIdle
  /\ BuilderIdle
  /\ QueryIdle
  /\ BrowseIdle
  /\ LoadIdle
  /\ AdvisorIdle

IoFrame ==
  UNCHANGED <<live, fallback, engineVars, builderVars, queryVars,
              browseVars, loadVars, advisorVars>>

CallGetComponents ==
  /\ promises.getComponents = Pending
  /\ promises' = [promises EXCEPT !.getComponents = getComponents(live, fallback)]
  /\ IoFrame

CallGetComponentsStructured ==
  /\ promises.getComponentsStructured = Pending
  /\ promises' = [promises EXCEPT
                    !.getComponentsStructured = StructuredFrom(live, fallback)]
  /\ IoFrame

CallRecommendedFrom ==
  /\ promises.getRecommendedBuild = Pending
  /\ \E useCaseArg \in AdvisorUseCases :
       promises' = [promises EXCEPT
                      !.getRecommendedBuild =
                         RecommendedFrom(100000, useCaseArg, live, fallback)]
  /\ IoFrame

CallGetThreads ==
  /\ promises.getThreads = Pending
  /\ promises' = [promises EXCEPT !.getThreads = getThreads(live)]
  /\ IoFrame

CallGetSavedBuilds ==
  /\ promises.getSavedBuilds = Pending
  /\ promises' = [promises EXCEPT !.getSavedBuilds = getSavedBuilds(live)]
  /\ IoFrame

NextIo ==
  \/ CallGetComponents
  \/ CallGetComponentsStructured
  \/ CallRecommendedFrom
  \/ CallGetThreads
  \/ CallGetSavedBuilds

SpecIo == InitIo /\ [][NextIo]_vars

(***************************************************************************)
(* Properties of the I/O helpers                                           *)
(***************************************************************************)
\* the live request did not deliver a catalog: network error, non-OK
\* status, non-JSON content type, or a body that cannot be parsed
LiveFailed ==
  \/ live = NetworkError
  \/ ~live.ok
  \/ live.contentType = Null
  \/ ~Includes(live.contentType.v, ApplicationJson)
  \/ live.body = Malformed

\* the request for the static document did not deliver a catalog
FallbackFailed ==
  \/ fallback = NetworkError
  \/ ~fallback.ok
  \/ fallback.body = Malformed

\* C22: the index of getComponentsStructured holds every record of the flat
\* list exactly once, under the key of its category, the records of a
\* category in the order of the flat list, and no key has an empty list.
C22_IndexGroupsByCategory ==
  (promises.getComponents.t = "array"
     /\ promises.getComponentsStructured.t = "object") =>
    LET list == promises.getComponents.v
        index == promises.getComponentsStructured.v
    IN /\ \A i \in 1..Len(list) : list[i].category \in DOMAIN index
       /\ \A key \in DOMAIN index :
            /\ index[key] # <<>>
            /\ index[key] = SelectSeq(list, LAMBDA c : c.category = key)

\* the index of a list that has a gpu between two cpus
C22_Witness ==
  /\ promises.getComponents.t = "array"
  /\ promises.getComponentsStructured.t = "object"
  /\ Len(promises.getComponents.v) = 3
  /\ promises.getComponents.v[1].category = "cpu"
  /\ promises.getComponents.v[2].category = "gpu"
  /\ promises.getComponents.v[3].category = "cpu"
  /\ Len(promises.getComponentsStructured.v["cpu"]) = 2

\* C24: whenever the live catalog request fails, in whatever way,
\* getComponents resolves to the static catalog document, and it ends in an
\* error only when the request for the static document fails too.
C24_FallbackOnAnyFailure ==
  promises.getComponents # Pending =>
    /\ (LiveFailed /\ ~FallbackFailed) => promises.getComponents = fallback.body
    /\ promises.getComponents.t = "rejected" => (LiveFailed /\ FallbackFailed)

\* C25: when its request fails, each of getComponentsStructured,
\* getRecommendedBuild, getThreads and getSavedBuilds ends in an error,
\* never in an empty list, index or build.
C25_FailureIsNotEmptyData ==
  /\ (promises.getComponentsStructured # Pending /\ LiveFailed /\ FallbackFailed)
       => promises.getComponentsStructured.t = "rejected"
  /\ (promises.getRecommendedBuild # Pending /\ LiveFailed /\ FallbackFailed)
       => promises.getRecommendedBuild.t = "rejected"
  /\ (promises.getThreads # Pending /\ LiveFailed)
       => promises.getThreads.t = "rejected"
  /\ (promises.getSavedBuilds # Pending /\ LiveFailed)
       => promises.getSavedBuilds.t = "rejected"

(***************************************************************************)
(* Builder page: the effect that loads the catalog.  The page has mounted  *)
(* and started the load; the load settles and the page may unmount, in     *)
(* either order.                                                           *)
(***************************************************************************)
InitLoad ==
  /\ live \in LiveResponses
  /\ fallback \in FallbackResponses
  /\ promises = Idle
  /\ dbIndex = Obj(<<>>)
  /\ error = ""
  /\ loading = TRUE
  /\ mounted = TRUE
  /\ settled = FALSE
  /\ EngineIdle
  /\ BuilderIdle
  /\ QueryIdle
  /\ BrowseIdle
  /\ AdvisorIdle

\* the cleanup of the effect: mounted = false
unmount ==
  /\ mounted
  /\ mounted' = FALSE
  /\ UNCHANGED <<dbIndex, error, loading, settled>>
  /\ UNCHANGED <<engineVars, builderVars, queryVars, browseVars, ioVars, advisorVars>>

loadSettles_ignoresMounted ==
  /\ ~settled
  /\ settled' = TRUE
  /\ LET grouped == StructuredFrom(live, fallback)
     IN /\ IF grouped.t = "rejected"
           THEN error' = "Failed to load components" /\ UNCHANGED dbIndex
           ELSE dbIndex' = grouped /\ UNCHANGED error
        /\ loading' = FALSE
  /\ UNCHANGED mounted
  /\ UNCHANGED <<engineVars, builderVars, queryVars, browseVars, ioVars, advisorVars>>

\* await getComponentsStructured() settles: the try, catch and finally
\* blocks of the effect, each guarded by mounted
loadSettles ==
  /\ ~settled
  /\ settled' = TRUE
  /\ LET grouped == StructuredFrom(live, fallback)
     IN IF mounted
        THEN /\ IF grouped.t = "rejected"
                THEN error' = "Failed to load components" /\ UNCHANGED dbIndex
                ELSE dbIndex' = grouped /\ UNCHANGED error
             /\ loading' = FALSE
        ELSE UNCHANGED <<dbIndex, error, loading>>
  /\ UNCHANGED mounted
  /\ UNCHANGED <<engineVars, builderVars, queryVars, browseVars, ioVars, advisorVars>>

NextLoad == unmount \/ loadSettles

SpecLoad == InitLoad /\ [][NextLoad]_vars

\* C30: when the load settles on a mounted page, loading becomes false and
\* either the index is stored (success) or the error 'Failed to load
\* components' is set (failure), not both; when it settles after the page
\* unmounted, db, error and loading stay as they were.
C30_LoadGuardedByMounted ==
  [][loadSettles =>
       IF mounted
       THEN /\ loading' = FALSE
            /\ IF LiveFailed /\ (~LiveUsable(live) => FallbackFailed)
               THEN error' = "Failed to load components" /\ dbIndex' = dbIndex
               ELSE /\ error' = error
                    /\ dbIndex'.t = "object"
                    /\ dbIndex' = Obj(getComponentsStructured(
                                        IF LiveFailed THEN fallback.body.v
                                        ELSE live.body.v))
       ELSE /\ dbIndex' = dbIndex
            /\ error' = error
            /\ loading' = loading]_vars

\* the load settled after the page had unmounted: still loading, no index
C30_Witness ==
  /\ settled = TRUE
  /\ mounted = FALSE
  /\ loading = TRUE
  /\ dbIndex = Obj(<<>>)
  /\ ~LiveFailed

(***************************************************************************)
(* Advisor page: recommendation requests in flight.  generateBuild awaits  *)
(* getRecommendedBuild; what follows the await runs when the request       *)
(* completes, and requests complete in any order.                          *)
(***************************************************************************)
InitAdvisor ==
  /\ page = "advisor"
  /\ advisorBuild = Null
  /\ currentBuild = Idle
  /\ savedBuilds = Idle
  /\ localStorage = Idle
  /\ link = Idle
  /\ shared = Idle
  /\ outcome = Idle
  /\ now = Idle
  /\ inFlight = {}
  /\ issued = 0
  /\ showResults = FALSE
  /\ lastRequest = Null
  /\ EngineIdle
  /\ QueryIdle
  /\ BrowseIdle
  /\ IoIdle
  /\ LoadIdle

AdvisorFrame ==
  UNCHANGED <<page, currentBuild, savedBuilds, localStorage, link, shared,
              outcome, now, engineVars, queryVars, browseVars, ioVars, loadVars>>

\* handleSubmit or applyPreset: generateBuild up to its await
requestBuild ==
  /\ issued < MaxRequests
  /\ \E targetBudget \in Budgets, targetUseCase \in AdvisorUseCases :
       LET request == [id |-> issued + 1, budget |-> targetBudget,
                       useCase |-> targetUseCase]
       IN /\ inFlight' = inFlight \cup {request}
          /\ lastRequest' = request
  /\ issued' = issued + 1
  /\ UNCHANGED <<advisorBuild, showResults>>
  /\ AdvisorFrame

\* what getRecommendedBuild resolves to for the request
ResultOf(request) ==
  RecommendationObject(request.budget, request.useCase, BuilderCatalog)

\* a request completes: generateBuild after its await
completeRequest ==
  /\ \E request \in inFlight :
       /\ advisorBuild' = ResultOf(request)
       /\ inFlight' = inFlight \ {request}
  /\ showResults' = TRUE
  /\ UNCHANGED <<issued, lastRequest>>
  /\ AdvisorFrame

\* the Start Over button of the results section
reset ==
  /\ showResults
  /\ showResults' = FALSE
  /\ advisorBuild' = Null
  /\ lastRequest' = Null
  /\ UNCHANGED <<inFlight, issued>>
  /\ AdvisorFrame

NextAdvisor == requestBuild \/ completeRequest \/ reset

SpecAdvisor == InitAdvisor /\ [][NextAdvisor]_vars

\* C27: once every request issued has completed, the build displayed is the
\* result of the request issued last, in whatever order they completed, and
\* after a reset with no later request no results are displayed.
C27_LatestRequestWins ==
  inFlight = {} =>
    IF lastRequest = Null
    THEN showResults = FALSE /\ advisorBuild = Null
    ELSE showResults = TRUE /\ advisorBuild = ResultOf(lastRequest)

====
